---------------------------- MODULE Spec2Model ----------------------------
(***************************************************************************)
(* Model of the RDF/Turtle serializer of annotation-meta-analysis:         *)
(*   scripts/convert_to_rdf.py          (data-model JSON-LD -> Turtle)      *)
(*   scripts/enrich_templates_to_rdf.py (template CSV -> enrichment Turtle) *)
(*                                                                         *)
(* A Python str is modelled as a sequence of characters; a character is a  *)
(* one-character TLA+ string, except the backtick and the apostrophe,      *)
(* which TLA+ string literals cannot hold and which are the atoms GRAVE    *)
(* and APOS.  Python's None is the value None.                              *)
(***************************************************************************)
EXTENDS Integers, Sequences, FiniteSets, TLC

VARIABLES
    pc,          \* where the run stands: at its start, in a loop, or the
                 \* name of the function that has returned
    s,           \* escape_turtle_string: the argument (a str or None)
    literal,     \* escape_turtle_string: the returned literal
    uri,         \* format_uri / percent_encode_uri: the argument
    project,     \* format_uri / convert_csv_to_turtle: the project name
    template_id, \* convert_csv_to_turtle: the row's template_id
    token,       \* format_uri / percent_encode_uri / template_uri: the result
    rules,       \* format_validation_rules: the argument
    formatted,   \* format_validation_rules: the returned text
    item,        \* convert_item_to_turtle: the JSON-LD node
    block,       \* convert_item_to_turtle: the returned text
    data,        \* convert_jsonld_to_turtle: the loaded JSON-LD document
    graph,       \* convert_jsonld_to_turtle: data.get('@graph', [])
    turtle_lines, \* convert_jsonld_to_turtle: the list the output is built in
    pos,         \* convert_jsonld_to_turtle: how many items the loop has taken
    output_file, \* convert_jsonld_to_turtle: the text of the file at output_path
    registry,    \* convert_jsonld_to_turtle: its local namespace_map
    templates,   \* convert_csv_to_turtle: the rows read from the CSV file
    enrich_file, \* convert_csv_to_turtle: the text of the file at output_path
    extracted,   \* process_model: the templates extracted from the data model
    template_config, \* process_model: the template configuration, or None
    include_all, \* process_model: its argument include_all
    script,      \* main: the script that runs
    arg_project, \* main: the argument --project, or None
    files,       \* main: the input files the glob has found
    sources,     \* main: what each input file holds
    main_pos,    \* main: how many files the loop has taken
    out_dir,     \* main: the files of the output directory
    stdout       \* main: the messages printed

varsEscape == <<s, literal>>
varsUri    == <<uri, project, template_id, token>>
varsRules  == <<rules, formatted>>
varsItem   == <<item, block>>
varsDoc    == <<data, graph, turtle_lines, pos, output_file, registry>>
varsEnrich == <<templates, enrich_file>>
varsModel  == <<extracted, template_config, include_all>>
varsMain   == <<script, arg_project, files, sources, main_pos, out_dir, stdout>>
varsRest   == <<varsEnrich, varsModel, varsMain>>
vars       == <<pc, varsEscape, varsUri, varsRules, varsItem, varsDoc, varsRest>>

-----------------------------------------------------------------------------
(* Characters and Python's str primitives *)

BS    == "\\"
DQ    == "\""
NL    == "\n"
CR    == "\r"
TAB   == "\t"
GRAVE == "GRAVE"
APOS  == "APOS"

None  == <<"None">>
Unset == <<"Unset">>

\* s.startswith(p)
StartsWith(str, p) ==
    Len(str) >= Len(p) /\ SubSeq(str, 1, Len(p)) = p

\* where old occurs in str
Occurrences(str, old) ==
    {i \in 1..(Len(str) - Len(old) + 1) : SubSeq(str, i, i + Len(old) - 1) = old}

\* s.replace(old, new): every non-overlapping occurrence of old, leftmost first
RECURSIVE Replace(_, _, _)
Replace(str, old, new) ==
    IF old = <<>> \/ Occurrences(str, old) = {} THEN str
    ELSE LET i == CHOOSE k \in Occurrences(str, old) :
                      \A m \in Occurrences(str, old) : k <= m
         IN  SubSeq(str, 1, i - 1) \o new
                 \o Replace(SubSeq(str, i + Len(old), Len(str)), old, new)

\* sep.join(parts)
RECURSIVE Join(_, _)
Join(sep, parts) ==
    IF parts = <<>> THEN <<>>
    ELSE IF Len(parts) = 1 THEN parts[1]
    ELSE parts[1] \o sep \o Join(sep, Tail(parts))

Chars(str) == {str[i] : i \in 1..Len(str)}

\* all sequences over alphabet A of length at most n
RECURSIVE SeqsUpTo(_, _)
SeqsUpTo(A, n) ==
    IF n = 0 THEN {<<>>}
    ELSE LET shorter == SeqsUpTo(A, n - 1)
         IN  shorter \cup {Append(t, c) : t \in shorter, c \in A}

-----------------------------------------------------------------------------
(* String Escaper *)

\* the mutant: quotes escaped before backslashes
escape_turtle_string_quote_first(str) ==
    IF str = None THEN <<DQ, DQ>>
    ELSE LET s1 == Replace(str, <<DQ>>, <<BS, DQ>>)
             s2 == Replace(s1, <<BS>>, <<BS, BS>>)
             s3 == Replace(s2, <<NL>>, <<BS, "n">>)
             s4 == Replace(s3, <<CR>>, <<BS, "r">>)
             s5 == Replace(s4, <<TAB>>, <<BS, "t">>)
         IN  <<DQ>> \o s5 \o <<DQ>>

\* the mutant: the tab is left as it is
escape_turtle_string_no_tab(str) ==
    IF str = None THEN <<DQ, DQ>>
    ELSE LET s1 == Replace(str, <<BS>>, <<BS, BS>>)
             s2 == Replace(s1, <<DQ>>, <<BS, DQ>>)
             s3 == Replace(s2, <<NL>>, <<BS, "n">>)
             s4 == Replace(s3, <<CR>>, <<BS, "r">>)
         IN  <<DQ>> \o s4 \o <<DQ>>

\* convert_to_rdf.py escape_turtle_string
escape_turtle_string(str) ==
    IF str = None THEN <<DQ, DQ>>
    ELSE LET s1 == Replace(str, <<BS>>, <<BS, BS>>)
             s2 == Replace(s1, <<DQ>>, <<BS, DQ>>)
             s3 == Replace(s2, <<NL>>, <<BS, "n">>)
             s4 == Replace(s3, <<CR>>, <<BS, "r">>)
             s5 == Replace(s4, <<TAB>>, <<BS, "t">>)
         IN  <<DQ>> \o s5 \o <<DQ>>

\* enrich_templates_to_rdf.py escape_turtle_string
enrich_escape_turtle_string(str) ==
    IF str = None \/ str = <<>> THEN <<DQ, DQ>>
    ELSE LET s1 == Replace(str, <<BS>>, <<BS, BS>>)
             s2 == Replace(s1, <<DQ>>, <<BS, DQ>>)
             s3 == Replace(s2, <<NL>>, <<BS, "n">>)
             s4 == Replace(s3, <<CR>>, <<BS, "r">>)
             s5 == Replace(s4, <<TAB>>, <<BS, "t">>)
         IN  <<DQ>> \o s5 \o <<DQ>>

-----------------------------------------------------------------------------
(* URI Normalizer *)

\* http://www.w3.org/2000/01/rdf-schema#
NS_rdfs ==
    <<"h","t","t","p",":","/","/","w","w","w",".","w","3",".","o","r","g","/",
      "2","0","0","0","/","0","1","/","r","d","f","-","s","c","h","e","m","a",
      "#">>

\* http://www.w3.org/1999/02/22-rdf-syntax-ns#
NS_rdf ==
    <<"h","t","t","p",":","/","/","w","w","w",".","w","3",".","o","r","g","/",
      "1","9","9","9","/","0","2","/","2","2","-","r","d","f","-","s","y","n",
      "t","a","x","-","n","s","#">>

\* http://schema.org/
NS_schema ==
    <<"h","t","t","p",":","/","/","s","c","h","e","m","a",".","o","r","g","/">>

\* http://www.w3.org/2001/XMLSchema#
NS_xsd ==
    <<"h","t","t","p",":","/","/","w","w","w",".","w","3",".","o","r","g","/",
      "2","0","0","1","/","X","M","L","S","c","h","e","m","a","#">>

\* http://schema.biothings.io/
BTS_URI ==
    <<"h","t","t","p",":","/","/","s","c","h","e","m","a",".","b","i","o","t",
      "h","i","n","g","s",".","i","o","/">>

\* bts:
BTS_PREFIX ==
    <<"b","t","s",":">>

\* https://dca.app.sagebionetworks.org/
DCA_BASE ==
    <<"h","t","t","p","s",":","/","/","d","c","a",".","a","p","p",".","s","a",
      "g","e","b","i","o","n","e","t","w","o","r","k","s",".","o","r","g","/">>

\* https://dca.app.sagebionetworks.org/vocab/
DCA_VOCAB ==
    <<"h","t","t","p","s",":","/","/","d","c","a",".","a","p","p",".","s","a",
      "g","e","b","i","o","n","e","t","w","o","r","k","s",".","o","r","g","/",
      "v","o","c","a","b","/">>

\* the namespace_map convert_jsonld_to_turtle builds, in insertion order
namespace_map ==
    << [prefix |-> <<"r","d","f","s">>,         ns_uri |-> NS_rdfs],
       [prefix |-> <<"r","d","f">>,             ns_uri |-> NS_rdf],
       [prefix |-> <<"s","c","h","e","m","a">>, ns_uri |-> NS_schema],
       [prefix |-> <<"x","s","d">>,             ns_uri |-> NS_xsd] >>

UpperCase == <<"A","B","C","D","E","F","G","H","I","J","K","L","M",
               "N","O","P","Q","R","S","T","U","V","W","X","Y","Z">>
LowerCase == <<"a","b","c","d","e","f","g","h","i","j","k","l","m",
               "n","o","p","q","r","s","t","u","v","w","x","y","z">>

\* str.lower()
Lower(str) ==
    [i \in 1..Len(str) |->
        IF \E k \in 1..26 : UpperCase[k] = str[i]
        THEN LowerCase[CHOOSE k \in 1..26 : UpperCase[k] = str[i]]
        ELSE str[i]]

\* str.isdigit() of one character
IsDigit(c) == c \in {"0","1","2","3","4","5","6","7","8","9"}

special_chars ==
    {"/", BS, "?", "#", "[", "]", "@", "!", "$", "&", APOS, "(", ")", "*",
     "+", ",", ";", "=", " ", "%", ".", "<", ">", GRAVE, "{", "}", "|", "^",
     DQ}

\* the mutant: the check of the first character left out
needs_uri_escaping_no_first_char(local_name) ==
    Chars(local_name) \cap special_chars # {}

needs_uri_escaping(local_name) ==
    \/ Chars(local_name) \cap special_chars # {}
    \/ local_name # <<>> /\ (IsDigit(local_name[1]) \/ local_name[1] = "-")

\* the replacements of percent_encode_uri, in the order applied
percent_replacements ==
    << <<">",   <<"%","3","E">>>>,
       <<"<",   <<"%","3","C">>>>,
       <<GRAVE, <<"%","6","0">>>>,
       <<"{",   <<"%","7","B">>>>,
       <<"}",   <<"%","7","D">>>>,
       <<"|",   <<"%","7","C">>>>,
       <<"^",   <<"%","5","E">>>>,
       <<BS,    <<"%","5","C">>>>,
       <<DQ,    <<"%","2","2">>>> >>

\* result = result.replace(old, new), for each pair of the table in turn
RECURSIVE ReplaceEach(_, _)
ReplaceEach(str, table) ==
    IF table = <<>> THEN str
    ELSE ReplaceEach(Replace(str, <<table[1][1]>>, table[1][2]), Tail(table))

\* the mutant: the caret is not encoded
percent_encode_uri_no_caret(u) ==
    ReplaceEach(u, SelectSeq(percent_replacements, LAMBDA r : r[1] # "^"))

percent_encode_uri(u) == ReplaceEach(u, percent_replacements)

Min(S) == CHOOSE x \in S : \A y \in S : x <= y

\* f"https://dca.app.sagebionetworks.org/{project}/{local_name}"
ProjectUri(proj, local_name) == DCA_BASE \o proj \o <<"/">> \o local_name

\* the mutant: the prefix is put before the whole uri, not the local name
format_uri_registered_keeps_base(u, e) ==
    LET local_name == Replace(u, e.ns_uri, <<>>)
    IN  IF needs_uri_escaping(local_name)
        THEN <<"<">> \o u \o <<">">>
        ELSE e.prefix \o <<":">> \o u

\* format_uri, the body of its loop for the entry e the uri starts with
format_uri_registered(u, e) ==
    LET local_name == Replace(u, e.ns_uri, <<>>)
    IN  IF needs_uri_escaping(local_name)
        THEN <<"<">> \o u \o <<">">>
        ELSE e.prefix \o <<":">> \o local_name

\* format_uri, its branch for a uri that starts with a legacy base
format_uri_legacy(u, proj, base) ==
    LET local_name == Replace(u, base, <<>>)
    IN  IF needs_uri_escaping(local_name)
        THEN <<"<">> \o percent_encode_uri(ProjectUri(proj, local_name)) \o <<">">>
        ELSE Lower(proj) \o <<":">> \o local_name

\* format_uri, its last return
format_uri_opaque(u) == <<"<">> \o percent_encode_uri(u) \o <<">">>

format_uri(u, proj, nsmap) ==
    LET hits == {i \in 1..Len(nsmap) : StartsWith(u, nsmap[i].ns_uri)}
    IN  IF hits # {} THEN format_uri_registered(u, nsmap[Min(hits)])
        ELSE IF StartsWith(u, BTS_URI) THEN format_uri_legacy(u, proj, BTS_URI)
        ELSE IF StartsWith(u, BTS_PREFIX) THEN format_uri_legacy(u, proj, BTS_PREFIX)
        ELSE format_uri_opaque(u)

\* enrich_templates_to_rdf.py convert_csv_to_turtle: the template's subject
template_uri(tid, proj) ==
    IF needs_uri_escaping(tid)
    THEN <<"<">> \o percent_encode_uri(ProjectUri(proj, tid)) \o <<">">>
    ELSE Lower(proj) \o <<":">> \o tid

-----------------------------------------------------------------------------
(* Specification of the String Escaper: one call on one argument *)

MaxStrLen == 3

EscapeAlphabet == {BS, DQ, NL, CR, TAB, "n", "a"}

IdleEscape == s = Unset /\ literal = Unset
IdleUri    == uri = Unset /\ project = Unset /\ template_id = Unset /\ token = Unset
IdleRules  == rules = Unset /\ formatted = Unset
IdleItem   == item = Unset /\ block = Unset
IdleDoc    == /\ data = Unset /\ graph = Unset /\ turtle_lines = Unset
              /\ pos = Unset /\ output_file = Unset /\ registry = Unset
IdleEnrich == templates = Unset /\ enrich_file = Unset
IdleModel  == extracted = Unset /\ template_config = Unset /\ include_all = Unset
IdleMain   == /\ script = Unset /\ arg_project = Unset
              /\ files = Unset /\ sources = Unset
              /\ main_pos = Unset /\ out_dir = Unset /\ stdout = Unset
IdleRest   == IdleEnrich /\ IdleModel /\ IdleMain

InitEscape ==
    /\ pc = "start"
    /\ s \in SeqsUpTo(EscapeAlphabet, MaxStrLen) \cup {None}
    /\ literal = Unset
    /\ IdleUri /\ IdleRules /\ IdleItem /\ IdleDoc /\ IdleRest

CallEscape ==
    /\ pc = "start"
    /\ literal' = escape_turtle_string(s)
    /\ pc' = "escape_turtle_string"
    /\ UNCHANGED <<s, varsUri, varsRules, varsItem, varsDoc, varsRest>>

CallEnrichEscape ==
    /\ pc = "start"
    /\ literal' = enrich_escape_turtle_string(s)
    /\ pc' = "enrich_escape_turtle_string"
    /\ UNCHANGED <<s, varsUri, varsRules, varsItem, varsDoc, varsRest>>

NextEscape == CallEscape \/ CallEnrichEscape

SpecEscape == InitEscape /\ [][NextEscape]_vars

-----------------------------------------------------------------------------
(* Properties of the String Escaper *)

InvalidText == <<"Invalid">>

\* the text between the outer quotes of a literal
LiteralBody(lit) ==
    IF Len(lit) >= 2 /\ Head(lit) = DQ /\ lit[Len(lit)] = DQ
    THEN SubSeq(lit, 2, Len(lit) - 1)
    ELSE InvalidText

\* Turtle's ECHAR for the five handled characters
UnescapeChar(c) ==
    CASE c = BS  -> <<BS>>
      [] c = DQ  -> <<DQ>>
      [] c = "n" -> <<NL>>
      [] c = "r" -> <<CR>>
      [] c = "t" -> <<TAB>>
      [] OTHER   -> InvalidText

\* Turtle's reading of the body of a STRING_LITERAL_QUOTE: a backslash starts
\* an escape; a bare quote, backslash, newline or carriage return is an error
RECURSIVE TurtleUnescape(_)
TurtleUnescape(body) ==
    IF body = <<>> THEN <<>>
    ELSE IF body = InvalidText THEN InvalidText
    ELSE IF Head(body) = BS
         THEN IF Len(body) < 2 THEN InvalidText
              ELSE LET c    == UnescapeChar(body[2])
                       rest == TurtleUnescape(SubSeq(body, 3, Len(body)))
                   IN  IF c = InvalidText \/ rest = InvalidText
                       THEN InvalidText ELSE c \o rest
         ELSE IF Head(body) \in {DQ, NL, CR} THEN InvalidText
              ELSE LET rest == TurtleUnescape(Tail(body))
                   IN  IF rest = InvalidText THEN InvalidText
                       ELSE <<Head(body)>> \o rest

EscapeReturned == pc \in {"escape_turtle_string", "enrich_escape_turtle_string"}

\* C2: for every text string s, the standard Turtle unescape of the body of
\* escape_turtle_string(s) (either script's escaper) is exactly s.
C2_EscapeRoundTrip ==
    (EscapeReturned /\ s # None) => TurtleUnescape(LiteralBody(literal)) = s

C2_Witness ==
    /\ EscapeReturned
    /\ s = <<BS, "n", DQ>>
    /\ TurtleUnescape(LiteralBody(literal)) = s

\* the image of one character under the escape map
EscapeImage(c) ==
    CASE c = BS  -> <<BS, BS>>
      [] c = DQ  -> <<BS, DQ>>
      [] c = NL  -> <<BS, "n">>
      [] c = CR  -> <<BS, "r">>
      [] c = TAB -> <<BS, "t">>
      [] OTHER   -> <<c>>

\* the concatenation of a sequence of strings
RECURSIVE Flatten(_)
Flatten(parts) ==
    IF parts = <<>> THEN <<>>
    ELSE IF Len(parts) = 1 THEN parts[1]
    ELSE LET h == Len(parts) \div 2
         IN  Flatten(SubSeq(parts, 1, h)) \o Flatten(SubSeq(parts, h + 1, Len(parts)))

MapChars(Img(_), str) == Flatten([i \in 1..Len(str) |-> Img(str[i])])

\* C3: escape_turtle_string(s) is a quote, the character-by-character image
\* of s under the escape map, and a quote; for None it is the empty literal.
C3_EscapeCharwise ==
    pc = "escape_turtle_string" =>
        IF s = None THEN literal = <<DQ, DQ>>
        ELSE literal = <<DQ>> \o MapChars(EscapeImage, s) \o <<DQ>>

C3_Witness ==
    /\ pc = "escape_turtle_string"
    /\ s = <<DQ, BS, "n">>
    /\ literal = <<DQ, BS, DQ, BS, BS, "n", DQ>>

-----------------------------------------------------------------------------
(* Specification of the URI Normalizer: one call of format_uri, of         *)
(* percent_encode_uri, or of the enrichment converter's subject builder    *)

MaxTail == 2

Projects == { <<"C","B">>, <<"A","D","K","P">> }

\* the characters local names are drawn from, in every combination
UriAlphabet == {"a", "0", "-", "/", ">", "%"}

\* every character the validity check or the encoder names, and some others
UriChars == special_chars \cup {"a", "X", "0", "9", "-", "_", ":", "~"}

\* the texts that follow the base in a uri, and the template ids
Tails ==
    SeqsUpTo(UriAlphabet, MaxTail)
        \cup {<<c>> : c \in UriChars}
        \cup {<<"a", c>> : c \in UriChars}
        \cup {<<"%","4","1">>, <<"a","%","3","E">>}

\* how a uri starts: a registered base, a legacy base, the project's or the
\* vocabulary's base, or nothing
Heads(proj) ==
    {namespace_map[i].ns_uri : i \in 1..Len(namespace_map)}
        \cup {BTS_URI, BTS_PREFIX, ProjectUri(proj, <<>>), DCA_VOCAB, <<>>}

InitUri ==
    /\ pc = "start"
    /\ project \in Projects
    /\ template_id \in Tails
    /\ \E head \in Heads(project), again \in BOOLEAN :
           uri = head \o template_id \o (IF again THEN head ELSE <<>>)
    /\ token = Unset
    /\ IdleEscape /\ IdleRules /\ IdleItem /\ IdleDoc /\ IdleRest

CallFormatUri ==
    /\ pc = "start"
    /\ token' = format_uri(uri, project, namespace_map)
    /\ pc' = "format_uri"
    /\ UNCHANGED <<uri, project, template_id, varsEscape, varsRules, varsItem, varsDoc, varsRest>>

CallPercentEncode ==
    /\ pc = "start"
    /\ token' = percent_encode_uri(uri)
    /\ pc' = "percent_encode_uri"
    /\ UNCHANGED <<uri, project, template_id, varsEscape, varsRules, varsItem, varsDoc, varsRest>>

CallTemplateUri ==
    /\ pc = "start"
    /\ token' = template_uri(template_id, project)
    /\ pc' = "template_uri"
    /\ UNCHANGED <<uri, project, template_id, varsEscape, varsRules, varsItem, varsDoc, varsRest>>

NextUri == CallFormatUri \/ CallPercentEncode \/ CallTemplateUri

SpecUri == InitUri /\ [][NextUri]_vars

-----------------------------------------------------------------------------
(* Properties of the URI Normalizer *)

\* a token <...>
IsBracketed(tok) ==
    Len(tok) >= 2 /\ Head(tok) = "<" /\ tok[Len(tok)] = ">"

BracketedText(tok) == SubSeq(tok, 2, Len(tok) - 1)

\* a token prefix:localName
IsPrefixed(tok) == ~IsBracketed(tok) /\ ":" \in Chars(tok)

FirstColon(tok) == Min({i \in 1..Len(tok) : tok[i] = ":"})
PrefixOf(tok)   == SubSeq(tok, 1, FirstColon(tok) - 1)
LocalOf(tok)    == SubSeq(tok, FirstColon(tok) + 1, Len(tok))

\* the characters a local name may not hold
ReservedChars ==
    {"/", BS, "?", "#", "[", "]", "@", "!", "$", "&", APOS, "(", ")", "*",
     "+", ",", ";", "=", " ", "%", ".", "<", ">", GRAVE, "{", "}", "|", "^",
     DQ}

ValidLocalName(L) ==
    /\ Chars(L) \cap ReservedChars = {}
    /\ L # <<>> => L[1] \notin {"0","1","2","3","4","5","6","7","8","9","-"}

\* str with the leading base removed, and nothing else
Remainder(str, base) == SubSeq(str, Len(base) + 1, Len(str))

RegisteredBases == {i \in 1..Len(namespace_map) : StartsWith(uri, namespace_map[i].ns_uri)}

\* C4: a uri that starts with a registered base and whose remainder is a
\* valid local name is returned as prefix:localName, and the registry's base
\* for that prefix followed by localName is the uri again.
C4_PrefixedRoundTrip ==
    pc = "format_uri" =>
        \A i \in RegisteredBases :
            ValidLocalName(Remainder(uri, namespace_map[i].ns_uri)) =>
                /\ IsPrefixed(token)
                /\ \E j \in 1..Len(namespace_map) :
                       /\ namespace_map[j].prefix = PrefixOf(token)
                       /\ namespace_map[j].ns_uri \o LocalOf(token) = uri

C4_Witness ==
    /\ pc = "format_uri"
    /\ uri = NS_schema \o <<"a", "0">>
    /\ token = <<"s","c","h","e","m","a",":","a","0">>

NineChars == {">", "<", GRAVE, "{", "}", "|", "^", BS, DQ}

\* C5: the text between the angle brackets of every bracketed token
\* format_uri returns holds none of the nine characters.
C5_BracketedEncoded ==
    (pc = "format_uri" /\ IsBracketed(token)) =>
        Chars(BracketedText(token)) \cap NineChars = {}

\* C6: the local name of every prefixed token format_uri returns, and of
\* every prefixed subject the enrichment converter builds, passes the
\* validity check: no reserved character, no leading digit or hyphen.
C6_PrefixedLocalValid ==
    (pc \in {"format_uri", "template_uri"} /\ IsPrefixed(token)) =>
        ValidLocalName(LocalOf(token))

C6_Witness ==
    /\ pc = "template_uri"
    /\ template_id = <<"a", "-">>
    /\ token = <<"c","b",":","a","-">>

PercentCodes ==
    { <<"%","3","E">>, <<"%","3","C">>, <<"%","6","0">>, <<"%","7","B">>,
      <<"%","7","D">>, <<"%","7","C">>, <<"%","5","E">>, <<"%","5","C">>,
      <<"%","2","2">>, <<"%","4","1">>, <<"%","2","5">>, <<"%","2","0">> }

PercentCodeChar(code) ==
    CASE code = <<"%","3","E">> -> ">"
      [] code = <<"%","3","C">> -> "<"
      [] code = <<"%","6","0">> -> GRAVE
      [] code = <<"%","7","B">> -> "{"
      [] code = <<"%","7","D">> -> "}"
      [] code = <<"%","7","C">> -> "|"
      [] code = <<"%","5","E">> -> "^"
      [] code = <<"%","5","C">> -> BS
      [] code = <<"%","2","2">> -> DQ
      [] code = <<"%","4","1">> -> "A"
      [] code = <<"%","2","5">> -> "%"
      [] code = <<"%","2","0">> -> " "

CodePositions(str) ==
    {i \in 1..(Len(str) - 2) : SubSeq(str, i, i + 2) \in PercentCodes}

\* percent-decoding, for the codes above
RECURSIVE PercentDecode(_)
PercentDecode(str) ==
    IF CodePositions(str) = {} THEN str
    ELSE LET i == Min(CodePositions(str))
         IN  SubSeq(str, 1, i - 1) \o <<PercentCodeChar(SubSeq(str, i, i + 2))>>
                 \o PercentDecode(SubSeq(str, i + 3, Len(str)))

\* C7: a uri that starts with a registered base and whose remainder holds a
\* reserved character is returned bracketed, and the percent-decoded text
\* between the brackets is the uri again.
C7_BracketedRoundTrip ==
    pc = "format_uri" =>
        \A i \in RegisteredBases :
            Chars(Remainder(uri, namespace_map[i].ns_uri)) \cap ReservedChars # {} =>
                /\ IsBracketed(token)
                /\ PercentDecode(BracketedText(token)) = uri

\* the legacy base the uri starts with, when no registered base matches
LegacyBases ==
    IF RegisteredBases # {} THEN {}
    ELSE IF StartsWith(uri, BTS_URI) THEN {BTS_URI}
    ELSE IF StartsWith(uri, BTS_PREFIX) THEN {BTS_PREFIX}
    ELSE {}

\* the character-by-character image under percent_encode_uri's table
PercentImage(c) ==
    CASE c = ">"   -> <<"%","3","E">>
      [] c = "<"   -> <<"%","3","C">>
      [] c = GRAVE -> <<"%","6","0">>
      [] c = "{"   -> <<"%","7","B">>
      [] c = "}"   -> <<"%","7","D">>
      [] c = "|"   -> <<"%","7","C">>
      [] c = "^"   -> <<"%","5","E">>
      [] c = BS    -> <<"%","5","C">>
      [] c = DQ    -> <<"%","2","2">>
      [] OTHER     -> <<c>>

\* C8: for a uri that matches no registered base and starts with a legacy
\* base, with R the uri less that leading base: the token is
\* <project lowercased>:R when R is a valid local name, and otherwise the
\* bracketed, percent-encoded https://dca.app.sagebionetworks.org/<project>/R.
C8_LegacyToProject ==
    pc = "format_uri" =>
        \A base \in LegacyBases :
            LET R == Remainder(uri, base)
            IN  IF ValidLocalName(R)
                THEN token = Lower(project) \o <<":">> \o R
                ELSE token = <<"<">>
                                 \o MapChars(PercentImage, ProjectUri(project, R))
                                 \o <<">">>

\* the table with its entries k and k+1 exchanged
Exchanged(table, k) ==
    [i \in 1..Len(table) |->
        IF i = k THEN table[k + 1] ELSE IF i = k + 1 THEN table[k] ELSE table[i]]

\* the table started at its entry k
Rotated(table, k) ==
    [i \in 1..Len(table) |-> table[((i + k - 2) % Len(table)) + 1]]

Reversed(table) == [i \in 1..Len(table) |-> table[Len(table) + 1 - i]]

\* other orders of the nine replacements: the reverse, every rotation and
\* every exchange of two neighbours
OtherOrders ==
    {Reversed(percent_replacements)}
        \cup {Rotated(percent_replacements, k) : k \in 2..Len(percent_replacements)}
        \cup {Exchanged(percent_replacements, k) : k \in 1..(Len(percent_replacements) - 1)}

\* C9: percent_encode_uri(u) is the character-by-character image of u that
\* replaces exactly the nine characters by their codes, whatever the order
\* of the replacements; a uri that matches no registered or legacy base is
\* returned by format_uri as that image inside angle brackets.
C9_PercentEncodeCharwise ==
    /\ pc = "percent_encode_uri" =>
           /\ token = MapChars(PercentImage, uri)
           /\ \A table \in OtherOrders : ReplaceEach(uri, table) = token
    /\ (pc = "format_uri" /\ RegisteredBases = {} /\ LegacyBases = {}) =>
           token = <<"<">> \o MapChars(PercentImage, uri) \o <<">">>

C9_Witness ==
    /\ pc = "percent_encode_uri"
    /\ uri = <<">", "%">>
    /\ token = <<"%","3","E","%">>

-----------------------------------------------------------------------------
(* Collection Formatter *)

\* the mutant: the items are joined like dependencies, by a comma
format_validation_rules_comma(rs) ==
    IF rs = <<>> \/ rs = None THEN <<"(", " ", ")">>
    ELSE LET escaped_rules == [i \in 1..Len(rs) |-> escape_turtle_string(rs[i])]
         IN  <<"(", " ">> \o Join(<<",", " ">>, escaped_rules) \o <<" ", ")">>

format_validation_rules(rs) ==
    IF rs = <<>> \/ rs = None THEN <<"(", " ", ")">>
    ELSE LET escaped_rules == [i \in 1..Len(rs) |-> escape_turtle_string(rs[i])]
         IN  <<"(", " ">> \o Join(<<" ">>, escaped_rules) \o <<" ", ")">>

-----------------------------------------------------------------------------
(* Specification of the Collection Formatter: one call on one list *)

MaxRules == 2

\* the rule strings: plain, with a space, and with the characters that
\* delimit items, literals and the collection
RuleStrings ==
    { <<>>, <<"a">>, <<"b">>, <<"a", " ", "b">>, <<DQ>>, <<BS>>, <<BS, DQ>>,
      <<")">>, <<DQ, " ", DQ>> }

InitRules ==
    /\ pc = "start"
    /\ rules \in SeqsUpTo(RuleStrings, MaxRules)
    /\ formatted = Unset
    /\ IdleEscape /\ IdleUri /\ IdleItem /\ IdleDoc /\ IdleRest

CallFormatValidationRules ==
    /\ pc = "start"
    /\ formatted' = format_validation_rules(rules)
    /\ pc' = "format_validation_rules"
    /\ UNCHANGED <<rules, varsEscape, varsUri, varsItem, varsDoc, varsRest>>

NextRules == CallFormatValidationRules

SpecRules == InitRules /\ [][NextRules]_vars

-----------------------------------------------------------------------------
(* Properties of the Collection Formatter *)

\* the number of backslashes right before position j of text
BackslashesBefore(text, j) ==
    CHOOSE n \in 0..(j - 1) :
        /\ \A m \in 1..n : text[j - m] = BS
        /\ n = j - 1 \/ text[j - n - 1] # BS

\* the position of the quote that closes the literal text starts with
ClosingQuotes(text) ==
    {j \in 2..Len(text) :
        text[j] = DQ /\ BackslashesBefore(SubSeq(text, 2, Len(text)), j - 1) % 2 = 0}

\* Turtle's reading of the items of a collection, from its first item on:
\* quoted literals, one space after each, then the closing parenthesis
RECURSIVE ReadItems(_)
ReadItems(text) ==
    IF text = <<")">> THEN <<>>
    ELSE IF text = <<>> \/ Head(text) # DQ \/ ClosingQuotes(text) = {}
         THEN InvalidText
    ELSE LET j    == Min(ClosingQuotes(text))
             first == TurtleUnescape(SubSeq(text, 2, j - 1))
             rest == IF Len(text) > j /\ text[j + 1] = " "
                     THEN ReadItems(SubSeq(text, j + 2, Len(text)))
                     ELSE InvalidText
         IN  IF first = InvalidText \/ rest = InvalidText THEN InvalidText
             ELSE <<first>> \o rest

\* the items of the collection ( item item ... )
ReadCollection(text) ==
    IF StartsWith(text, <<"(", " ">>)
    THEN ReadItems(SubSeq(text, 3, Len(text)))
    ELSE InvalidText

\* C10: format_validation_rules returns ( ) for the empty sequence, and
\* otherwise "( ", the escaped items joined by single spaces, " )": read
\* back, the collection holds the input's items, as many and in its order.
C10_CollectionInOrder ==
    pc = "format_validation_rules" =>
        /\ rules = <<>> => formatted = <<"(", " ", ")">>
        /\ rules # <<>> =>
               formatted = <<"(", " ">>
                   \o Join(<<" ">>, [i \in 1..Len(rules) |->
                          <<DQ>> \o MapChars(EscapeImage, rules[i]) \o <<DQ>>])
                   \o <<" ", ")">>
        /\ ReadCollection(formatted) = rules

C10_Witness ==
    /\ pc = "format_validation_rules"
    /\ rules = << <<"a">>, <<"b">> >>
    /\ formatted = <<"(", " ", DQ, "a", DQ, " ", DQ, "b", DQ, " ", ")">>

-----------------------------------------------------------------------------
(* JSON values: null, strings, booleans, lists, and the objects {"@id": ..} *)
(* that refer to a node                                                    *)

JNull      == [kind |-> "null"]
JStr(str)  == [kind |-> "str", val |-> str]
JBool(b)   == [kind |-> "bool", val |-> b]
JList(vs)  == [kind |-> "list", val |-> vs]
JRef(id)   == [kind |-> "dict", id |-> id]

\* Python's truth value; an object that refers to a node holds a key
Truthy(v) ==
    CASE v.kind = "null" -> FALSE
      [] v.kind = "str"  -> v.val # <<>>
      [] v.kind = "bool" -> v.val
      [] v.kind = "list" -> v.val # <<>>
      [] v.kind = "dict" -> TRUE

\* item.get(key): null for a key the node does not hold
Get(node, key) == IF key \in DOMAIN node THEN node[key] ELSE JNull

\* dep.get('@id', ''), as a str
RefId(ref) == IF ref.kind = "dict" /\ ref.id.kind = "str" THEN ref.id.val ELSE <<>>

\* str.rstrip(chars)
RStrip(str, chars) ==
    LET keep == {i \in 1..Len(str) : str[i] \notin chars}
    IN  IF keep = {} THEN <<>>
        ELSE SubSeq(str, 1, CHOOSE k \in keep : \A m \in keep : m <= k)

-----------------------------------------------------------------------------
(* Node-to-Block Converter *)

\* the mutant: a reference without an @id is kept
format_dependencies_keeps_all(deps, proj, nsmap) ==
    LET formatted_ == [i \in 1..Len(deps) |->
                          format_uri(RefId(deps[i]), proj, nsmap)]
    IN  Join(<<","," ">>, formatted_)

format_dependencies(deps, proj, nsmap) ==
    LET with_id   == SelectSeq(deps, LAMBDA dep : RefId(dep) # <<>>)
        formatted_ == [i \in 1..Len(with_id) |->
                          format_uri(RefId(with_id[i]), proj, nsmap)]
    IN  Join(<<","," ">>, formatted_)

format_subclass(subclass, proj, nsmap) ==
    IF subclass.kind = "dict"
    THEN format_uri(RefId(subclass), proj, nsmap)
    ELSE IF subclass.kind = "list"
    THEN LET with_id   == SelectSeq(subclass.val,
                              LAMBDA sc : sc.kind = "dict" /\ RefId(sc) # <<>>)
             formatted_ == [i \in 1..Len(with_id) |->
                               format_uri(RefId(with_id[i]), proj, nsmap)]
         IN  Join(<<","," ">>, formatted_)
    ELSE <<>>

format_types(types) ==
    IF types.kind = "str" THEN <<types.val>>
    ELSE IF types.kind = "list" THEN types.val
    ELSE <<>>

\* convert_item_to_turtle: one entry of type_parts
type_part(type, proj, nsmap) ==
    IF StartsWith(type, <<"r","d","f","s",":">>) \/ StartsWith(type, <<"s","c","h","e","m","a",":">>)
    THEN type
    ELSE format_uri(type, proj, nsmap)

\* convert_item_to_turtle: the subject line, with the types when there are some
type_lines(node, proj, nsmap) ==
    LET subject    == format_uri(Get(node, "@id").val, proj, nsmap)
        types      == format_types(Get(node, "@type"))
        type_parts == [i \in 1..Len(types) |-> type_part(types[i], proj, nsmap)]
    IN  IF type_parts # <<>>
        THEN <<subject \o <<" ","a"," ">> \o Join(<<","," ">>, type_parts) \o <<" ",";">>>>
        ELSE <<subject>>

\* convert_item_to_turtle: "Add label"
label_lines(node) ==
    LET label == Get(node, "rdfs:label")
    IN  IF Truthy(label)
        THEN <<<<" "," "," "," ","r","d","f","s",":","l","a","b","e","l"," ">> \o escape_turtle_string(label.val) \o <<" ",";">>>>
        ELSE <<>>

\* convert_item_to_turtle: "Add comment"
comment_lines(node) ==
    LET comment == Get(node, "rdfs:comment")
    IN  IF Truthy(comment)
        THEN <<<<" "," "," "," ","r","d","f","s",":","c","o","m","m","e","n","t"," ">> \o escape_turtle_string(comment.val) \o <<" ",";">>>>
        ELSE <<>>

\* convert_item_to_turtle: "Add subClassOf"
subclass_lines(node, proj, nsmap) ==
    LET subclass == Get(node, "rdfs:subClassOf")
        formatted_subclass ==
            IF Truthy(subclass) THEN format_subclass(subclass, proj, nsmap) ELSE <<>>
    IN  IF formatted_subclass # <<>>
        THEN <<<<" "," "," "," ","r","d","f","s",":","s","u","b","C","l","a","s","s","O","f"," ">> \o formatted_subclass \o <<" ",";">>>>
        ELSE <<>>

\* convert_item_to_turtle: sms:displayName
display_name_lines(node) ==
    LET display_name == Get(node, "sms:displayName")
    IN  IF Truthy(display_name)
        THEN <<<<" "," "," "," ","d","c","a",":","d","i","s","p","l","a","y","N","a","m","e"," ">> \o escape_turtle_string(display_name.val)
                   \o <<" ",";">>>>
        ELSE <<>>

\* the mutant: only the native boolean counts as true
required_lines_bool_only(node) ==
    LET required  == Get(node, "sms:required")
        req_value == IF required.kind = "bool" /\ required.val
                     THEN <<"t","r","u","e">> ELSE <<"f","a","l","s","e">>
    IN  IF required.kind # "null"
        THEN <<<<" "," "," "," ","d","c","a",":","r","e","q","u","i","r","e","d"," ">> \o req_value \o <<" ",";">>>>
        ELSE <<>>

\* convert_item_to_turtle: sms:required
required_lines(node) ==
    LET required  == Get(node, "sms:required")
        req_value ==
            IF \/ required.kind = "str" /\ required.val = <<"s","m","s",":","t","r","u","e">>
               \/ required.kind = "bool" /\ required.val
            THEN <<"t","r","u","e">> ELSE <<"f","a","l","s","e">>
    IN  IF required.kind # "null"
        THEN <<<<" "," "," "," ","d","c","a",":","r","e","q","u","i","r","e","d"," ">> \o req_value \o <<" ",";">>>>
        ELSE <<>>

\* convert_item_to_turtle: "Add requiresDependency"
dependency_lines(node, proj, nsmap) ==
    LET requires_dep == Get(node, "sms:requiresDependency")
        formatted_deps ==
            IF Truthy(requires_dep)
            THEN format_dependencies(requires_dep.val, proj, nsmap) ELSE <<>>
    IN  IF formatted_deps # <<>>
        THEN <<<<" "," "," "," ","d","c","a",":","r","e","q","u","i","r","e","s","D","e","p","e","n","d","e","n","c","y"," ">> \o formatted_deps \o <<" ",";">>>>
        ELSE <<>>

\* the mutant: the line is emitted for a list that is not empty only
rules_lines_if_truthy(node) ==
    LET validation_rules == Get(node, "sms:validationRules")
    IN  IF Truthy(validation_rules)
        THEN <<<<" "," "," "," ","d","c","a",":","v","a","l","i","d","a","t","i","o","n","R","u","l","e","s"," ">>
                   \o format_validation_rules(validation_rules.val) \o <<" ",";">>>>
        ELSE <<>>

\* convert_item_to_turtle: "Add validationRules"
rules_lines(node) ==
    LET validation_rules == Get(node, "sms:validationRules")
    IN  IF validation_rules.kind # "null"
        THEN <<<<" "," "," "," ","d","c","a",":","v","a","l","i","d","a","t","i","o","n","R","u","l","e","s"," ">>
                   \o format_validation_rules(validation_rules.val) \o <<" ",";">>>>
        ELSE <<>>

\* the mutant: the comment is written before the label
item_lines_comment_first(node, proj, nsmap) ==
    type_lines(node, proj, nsmap)
        \o comment_lines(node)
        \o label_lines(node)
        \o subclass_lines(node, proj, nsmap)
        \o display_name_lines(node)
        \o required_lines(node)
        \o dependency_lines(node, proj, nsmap)
        \o rules_lines(node)

\* convert_item_to_turtle: lines, before the last terminator is rewritten
item_lines(node, proj, nsmap) ==
    type_lines(node, proj, nsmap)
        \o label_lines(node)
        \o comment_lines(node)
        \o subclass_lines(node, proj, nsmap)
        \o display_name_lines(node)
        \o required_lines(node)
        \o dependency_lines(node, proj, nsmap)
        \o rules_lines(node)

\* the mutant: the semicolon is cut and the period added without its space
item_terminated_no_space(lines) ==
    [i \in 1..Len(lines) |->
        IF i = Len(lines) THEN RStrip(lines[i], {" ", ";"}) \o <<".">> ELSE lines[i]]

\* convert_item_to_turtle: the terminator of the last line rewritten
item_terminated(lines) ==
    [i \in 1..Len(lines) |->
        IF i = Len(lines) THEN RStrip(lines[i], {" ", ";"}) \o <<" ",".">> ELSE lines[i]]

\* the mutant: only a missing @id is skipped, an empty one is not
convert_item_to_turtle_empty_id(node, proj, nsmap) ==
    IF Get(node, "@id").kind = "null" THEN <<>>
    ELSE Join(<<NL>>, item_terminated(item_lines(node, proj, nsmap)))

convert_item_to_turtle(node, proj, nsmap) ==
    IF ~Truthy(Get(node, "@id")) THEN <<>>
    ELSE Join(<<NL>>, item_terminated(item_lines(node, proj, nsmap)))

-----------------------------------------------------------------------------
(* Specification of the Node-to-Block Converter: one call on one node,     *)
(* under project CB and the namespace_map of convert_jsonld_to_turtle      *)

CB == <<"C","B">>

\* https://dca.app.sagebionetworks.org/CB/FileType and .../CB/FileFormat
U_FileType   == ProjectUri(CB, <<"F","i","l","e","T","y","p","e">>)
U_FileFormat == ProjectUri(CB, <<"F","i","l","e","F","o","r","m","a","t">>)

IdValues ==
    {JNull, JStr(<<>>), JStr(U_FileType), JStr(<<"b","t","s",":","C","o","m","p","o","n","e","n","t">>),
     JStr(<<"b","t","s",":","A","g","e"," ","(","y","e","a","r","s",")">>)}

TypeValues ==
    {JNull, JList(<<>>), JStr(<<"r","d","f","s",":","C","l","a","s","s">>), JList(<<<<"r","d","f","s",":","C","l","a","s","s">>>>),
     JList(<<<<"r","d","f",":","P","r","o","p","e","r","t","y">>, <<"s","c","h","e","m","a",":","T","h","i","n","g">>>>)}

LabelValues   == {JNull, JStr(<<>>), JStr(<<"F","i","l","e","T","y","p","e">>)}
CommentValues == {JNull, JStr(<<"a", DQ, ";">>)}

SubClassValues ==
    {JNull, JRef(JStr(<<"b","t","s",":","T","h","i","n","g">>)),
     JList(<<JRef(JStr(<<"b","t","s",":","T","h","i","n","g">>)), JRef(JNull), JRef(JStr(<<"h","t","t","p",":","/","/","s","c","h","e","m","a",".","o","r","g","/","T","h","i","n","g">>))>>)}

DisplayNameValues == {JNull, JStr(<<"F","i","l","e"," ","T","y","p","e">>)}

RequiredValues ==
    {JNull, JBool(TRUE), JBool(FALSE), JStr(<<"s","m","s",":","t","r","u","e">>), JStr(<<"s","m","s",":","f","a","l","s","e">>),
     JStr(<<"t","r","u","e">>)}

DependencyValues ==
    {JNull, JList(<<>>), JList(<<JRef(JNull), JRef(JStr(<<>>))>>),
     JList(<<JRef(JStr(U_FileFormat))>>),
     JList(<<JRef(JNull), JRef(JStr(<<"b","t","s",":","B">>)), JRef(JStr(<<"b","t","s",":","A">>))>>)}

RulesValues ==
    {JNull, JList(<<>>), JList(<<<<"s","t","r">>, <<"l","i","s","t"," ","l","i","k","e">>>>)}

\* the node with the keys whose value is not null
NodeOf(id, type, label, comment, subclass, display, required, deps, vrules) ==
    LET all == [k \in {"@id", "@type", "rdfs:label", "rdfs:comment",
                       "rdfs:subClassOf", "sms:displayName", "sms:required",
                       "sms:requiresDependency", "sms:validationRules"} |->
                  CASE k = "@id"                    -> id
                    [] k = "@type"                  -> type
                    [] k = "rdfs:label"             -> label
                    [] k = "rdfs:comment"           -> comment
                    [] k = "rdfs:subClassOf"        -> subclass
                    [] k = "sms:displayName"        -> display
                    [] k = "sms:required"           -> required
                    [] k = "sms:requiresDependency" -> deps
                    [] k = "sms:validationRules"    -> vrules]
        keys == {k \in DOMAIN all : all[k].kind # "null"}
    IN  [k \in keys |-> all[k]]

Nodes ==
    {NodeOf(id, type, label, comment, subclass, display, required, deps, vrules) :
        id \in IdValues, type \in TypeValues, label \in LabelValues,
        comment \in CommentValues, subclass \in SubClassValues,
        display \in DisplayNameValues, required \in RequiredValues,
        deps \in DependencyValues, vrules \in RulesValues}

InitItem ==
    /\ pc = "start"
    /\ item \in Nodes
    /\ block = Unset
    /\ IdleEscape /\ IdleRules /\ IdleDoc /\ IdleRest
    /\ uri = Unset /\ template_id = Unset /\ token = Unset
    /\ project = CB

CallConvertItem ==
    /\ pc = "start"
    /\ block' = convert_item_to_turtle(item, project, namespace_map)
    /\ pc' = "convert_item_to_turtle"
    /\ UNCHANGED <<item, varsEscape, varsUri, varsRules, varsDoc, varsRest>>

NextItem == CallConvertItem

SpecItem == InitItem /\ [][NextItem]_vars

-----------------------------------------------------------------------------
(* Properties of the Node-to-Block Converter *)

\* text.split("\n")
RECURSIVE SplitLines(_)
SplitLines(text) ==
    IF Occurrences(text, <<NL>>) = {} THEN <<text>>
    ELSE LET i == Min(Occurrences(text, <<NL>>))
         IN  <<SubSeq(text, 1, i - 1)>> \o SplitLines(SubSeq(text, i + 1, Len(text)))

Contains(text, part) == Occurrences(text, part) # {}

EndsWith(text, part) ==
    Len(text) >= Len(part) /\ SubSeq(text, Len(text) - Len(part) + 1, Len(text)) = part

\* the node of the end-to-end scenario
FileTypeNode ==
    NodeOf(JStr(U_FileType), JList(<<<<"r","d","f","s",":","C","l","a","s","s">>>>), JStr(<<"F","i","l","e","T","y","p","e">>), JNull,
           JNull, JNull, JNull, JList(<<JRef(JStr(U_FileFormat))>>), JList(<<>>))

\* C1: under project CB and the namespace map convert_jsonld_to_turtle
\* builds, the FileType node's block starts with the line
\* cb:FileType a rdfs:Class ; holds lines for rdfs:label "FileType",
\* dca:requiresDependency cb:FileFormat and dca:validationRules ( ), and
\* its last line ends in " .".
C1_FileTypeBlock ==
    (pc = "convert_item_to_turtle" /\ project = CB /\ item = FileTypeNode) =>
        LET lines == SplitLines(block)
        IN  /\ lines[1] = <<"c","b",":","F","i","l","e","T","y","p","e"," ","a"," ","r","d","f","s",":","C","l","a","s","s"," ",";">>
            /\ \E i \in 1..Len(lines) :
                   Contains(lines[i], <<"r","d","f","s",":","l","a","b","e","l"," ">> \o <<DQ>> \o <<"F","i","l","e","T","y","p","e">> \o <<DQ>>)
            /\ \E i \in 1..Len(lines) :
                   Contains(lines[i], <<"d","c","a",":","r","e","q","u","i","r","e","s","D","e","p","e","n","d","e","n","c","y"," ","c","b",":","F","i","l","e","F","o","r","m","a","t">>)
            /\ \E i \in 1..Len(lines) :
                   Contains(lines[i], <<"d","c","a",":","v","a","l","i","d","a","t","i","o","n","R","u","l","e","s"," ","("," ",")">>)
            /\ EndsWith(lines[Len(lines)], <<" ",".">>)

\* ---------------------------------------------------------------------------
\* Reading a block: its lines, the subject token and the predicate of a line

\* where the subject token of a block's first line ends: at the closing
\* bracket of a bracketed token, before the first space of a prefixed one
SubjectEnd(line) ==
    IF line # <<>> /\ Head(line) = "<"
    THEN IF ">" \in Chars(line)
         THEN Min({i \in 1..Len(line) : line[i] = ">"}) ELSE Len(line)
    ELSE IF " " \in Chars(line)
         THEN Min({i \in 1..Len(line) : line[i] = " "}) - 1 ELSE Len(line)

AfterSubject(line) == SubSeq(line, SubjectEnd(line) + 1, Len(line))

Indent == <<" "," "," "," ">>

\* the predicate of an indented line: its first word
PredicateOf(line) ==
    IF StartsWith(line, Indent) /\ " " \in Chars(SubSeq(line, 5, Len(line)))
    THEN LET rest == SubSeq(line, 5, Len(line))
         IN  SubSeq(rest, 1, Min({i \in 1..Len(rest) : rest[i] = " "}) - 1)
    ELSE <<>>

\* the object of an indented line: what stands between predicate and terminator
ObjectOf(line) ==
    SubSeq(line, 5 + Len(PredicateOf(line)) + 1, Len(line) - 2)

\* the predicates of a block in the order of its lines, the type declaration
\* of the first line being the predicate a
BlockPredicates(lines) ==
    (IF StartsWith(AfterSubject(lines[1]), <<" ","a"," ">>) THEN <<<<"a">>>> ELSE <<>>)
        \o [i \in 1..(Len(lines) - 1) |-> PredicateOf(lines[i + 1])]

PredicateOrder ==
    <<<<"a">>, <<"r","d","f","s",":","l","a","b","e","l">>, <<"r","d","f","s",":","c","o","m","m","e","n","t">>, <<"r","d","f","s",":","s","u","b","C","l","a","s","s","O","f">>,
      <<"d","c","a",":","d","i","s","p","l","a","y","N","a","m","e">>, <<"d","c","a",":","r","e","q","u","i","r","e","d">>, <<"d","c","a",":","r","e","q","u","i","r","e","s","D","e","p","e","n","d","e","n","c","y">>,
      <<"d","c","a",":","v","a","l","i","d","a","t","i","o","n","R","u","l","e","s">>>>

Rank(p) ==
    IF \E i \in 1..Len(PredicateOrder) : PredicateOrder[i] = p
    THEN CHOOSE i \in 1..Len(PredicateOrder) : PredicateOrder[i] = p
    ELSE 0

\* the lines of a block whose predicate is p
LinesWith(lines, p) == {i \in 2..Len(lines) : PredicateOf(lines[i]) = p}

Converted == pc = "convert_item_to_turtle" /\ block # <<>>

\* C12: in every block the predicate lines stand in the order type
\* declaration, rdfs:label, rdfs:comment, rdfs:subClassOf, dca:displayName,
\* dca:required, dca:requiresDependency, dca:validationRules, and each of
\* them stands there at most once.
C12_PredicateOrder ==
    Converted =>
        LET ps == BlockPredicates(SplitLines(block))
        IN  /\ \A i \in 1..Len(ps) : Rank(ps[i]) > 0
            /\ \A i, j \in 1..Len(ps) : i < j => Rank(ps[i]) < Rank(ps[j])

C12_Witness ==
    Converted /\ BlockPredicates(SplitLines(block)) = PredicateOrder

C14_NoBareSubject ==
    Converted =>
        LET lines == SplitLines(block)
        IN  ~(Len(lines) = 1 /\ AfterSubject(lines[1]) = <<" ",".">>)

\* the lines of the block after the subject line with predicate p, as a sequence
PredicateLines(lines, p) ==
    SelectSeq(Tail(lines), LAMBDA line : PredicateOf(line) = p)

C16_RequiredLine ==
    Converted =>
        LET found    == PredicateLines(SplitLines(block), <<"d","c","a",":","r","e","q","u","i","r","e","d">>)
            required == Get(item, "sms:required")
        IN  IF required = JNull THEN found = <<>>
            ELSE /\ Len(found) = 1
                 /\ ObjectOf(found[1]) =
                        IF required = JBool(TRUE) \/ required = JStr(<<"s","m","s",":","t","r","u","e">>)
                        THEN <<"t","r","u","e">> ELSE <<"f","a","l","s","e">>

C16_Witness ==
    /\ Converted
    /\ Get(item, "sms:required") = JStr(<<"s","m","s",":","t","r","u","e">>)
    /\ PredicateLines(SplitLines(block), <<"d","c","a",":","r","e","q","u","i","r","e","d">>) # <<>>

\* the parts of text between the occurrences of sep
RECURSIVE SplitBy(_, _)
SplitBy(text, sep) ==
    IF Occurrences(text, sep) = {} THEN <<text>>
    ELSE LET i == Min(Occurrences(text, sep))
         IN  <<SubSeq(text, 1, i - 1)>>
                 \o SplitBy(SubSeq(text, i + Len(sep), Len(text)), sep)

\* the @id values of the references of a list that have one, in its order
IdsOf(refs) ==
    LET with_id == SelectSeq(refs, LAMBDA ref : ref.kind = "dict" /\ Truthy(ref.id))
    IN  [i \in 1..Len(with_id) |-> with_id[i].id.val]

\* C17: the references of sms:requiresDependency that have an @id give one
\* dca:requiresDependency line, whose object is their tokens in source order
\* separated by ", ", without parentheses; with no such reference there is
\* no dca:requiresDependency line.
C17_DependencyLine ==
    Converted =>
        LET found        == PredicateLines(SplitLines(block), <<"d","c","a",":","r","e","q","u","i","r","e","s","D","e","p","e","n","d","e","n","c","y">>)
            requires_dep == Get(item, "sms:requiresDependency")
            ids          == IF requires_dep.kind = "list" THEN IdsOf(requires_dep.val)
                            ELSE <<>>
        IN  IF ids = <<>> THEN found = <<>>
            ELSE /\ Len(found) = 1
                 /\ SplitBy(ObjectOf(found[1]), <<","," ">>) =
                        [i \in 1..Len(ids) |-> format_uri(ids[i], project, namespace_map)]
                 /\ Head(ObjectOf(found[1])) # "("

C17_Witness ==
    /\ Converted
    /\ Get(item, "sms:requiresDependency").kind = "list"
    /\ Len(Get(item, "sms:requiresDependency").val) = 3
    /\ Len(SplitBy(ObjectOf(PredicateLines(SplitLines(block),
                                <<"d","c","a",":","r","e","q","u","i","r","e","s","D","e","p","e","n","d","e","n","c","y">>)[1]), <<","," ">>)) = 2

WellKnownPrefixes == {<<"r","d","f","s",":">>, <<"r","d","f",":">>, <<"s","c","h","e","m","a",":">>, <<"x","s","d",":">>, <<"d","c","a",":">>}

\* C18: the type declaration is " a " and the type tokens in source order
\* separated by ", ": a type written with one of the prefixes rdfs:, rdf:,
\* schema:, xsd:, dca: stands as it is, every other type as its format_uri
\* token.
C18_TypesVerbatim ==
    (Converted /\ Truthy(Get(item, "@type"))) =>
        LET first  == SplitLines(block)[1]
            types  == format_types(Get(item, "@type"))
            tokens == [i \in 1..Len(types) |->
                          IF \E p \in WellKnownPrefixes : StartsWith(types[i], p)
                          THEN types[i]
                          ELSE format_uri(types[i], project, namespace_map)]
        IN  SubSeq(AfterSubject(first), 1, Len(AfterSubject(first)) - 2)
                = <<" ","a"," ">> \o Join(<<","," ">>, tokens)

\* ---------------------------------------------------------------------------
\* convert_jsonld_to_turtle: the document assembler

\* the mutant: the header has no @prefix line for schema
prefix_lines_no_schema(proj) ==
    <<<<"@","p","r","e","f","i","x"," ">> \o Lower(proj) \o <<":"," ","<">> \o DCA_BASE \o proj \o <<"/",">"," ",".">>,
      <<"@","p","r","e","f","i","x"," ","d","c","a",":"," ","<">> \o DCA_VOCAB \o <<">"," ",".">>,
      <<"@","p","r","e","f","i","x"," ","r","d","f","s",":"," ","<">> \o NS_rdfs \o <<">"," ",".">>,
      <<"@","p","r","e","f","i","x"," ","r","d","f",":"," ","<">> \o NS_rdf \o <<">"," ",".">>,
      <<"@","p","r","e","f","i","x"," ","x","s","d",":"," ","<">> \o NS_xsd \o <<">"," ",".">>>>

\* the six @prefix lines, in the order they are appended
prefix_lines(proj) ==
    <<<<"@","p","r","e","f","i","x"," ">> \o Lower(proj) \o <<":"," ","<">> \o DCA_BASE \o proj \o <<"/",">"," ",".">>,
      <<"@","p","r","e","f","i","x"," ","d","c","a",":"," ","<">> \o DCA_VOCAB \o <<">"," ",".">>,
      <<"@","p","r","e","f","i","x"," ","r","d","f","s",":"," ","<">> \o NS_rdfs \o <<">"," ",".">>,
      <<"@","p","r","e","f","i","x"," ","r","d","f",":"," ","<">> \o NS_rdf \o <<">"," ",".">>,
      <<"@","p","r","e","f","i","x"," ","s","c","h","e","m","a",":"," ","<">> \o NS_schema \o <<">"," ",".">>,
      <<"@","p","r","e","f","i","x"," ","x","s","d",":"," ","<">> \o NS_xsd \o <<">"," ",".">>>>

\* the mutant: no empty line is appended after the prefixes
header_lines_no_blank(proj) == prefix_lines(proj)

\* turtle_lines when the loop starts: the prefixes and an empty line
header_lines(proj) == prefix_lines(proj) \o <<<<>>>>

\* data.get('@graph', [])
graph_of(json) == IF "@graph" \in DOMAIN json THEN json["@graph"] ELSE <<>>

\* the mutant: a block that is in the list already is not appended again
append_item_once(lines, turtle_item) ==
    IF turtle_item # <<>> /\ \A i \in 1..Len(lines) : lines[i] # turtle_item
    THEN lines \o <<turtle_item, <<>>>>
    ELSE lines

\* the body of the loop: a non-empty block is appended, and an empty line
append_item(lines, turtle_item) ==
    IF turtle_item # <<>> THEN lines \o <<turtle_item, <<>>>> ELSE lines

\* f.write('\n'.join(turtle_lines))
written_text(lines) == Join(<<NL>>, lines)

MaxGraph == 3

\* the nodes the graphs are made of: one without @id, one with an empty
\* @id, the FileType node, a node with nothing but its @id, a second node
\* with that same @id, and a node whose dependencies are plain strings
DocNodes ==
    {NodeOf(JNull, JNull, JStr(<<"F","i","l","e","T","y","p","e">>), JNull, JNull, JNull, JNull, JNull, JNull),
     NodeOf(JStr(<<>>), JStr(<<"r","d","f","s",":","C","l","a","s","s">>), JNull, JNull, JNull, JNull, JNull, JNull,
            JNull),
     NodeOf(JStr(U_FileType), JList(<<<<"r","d","f","s",":","C","l","a","s","s">>>>), JStr(<<"F","i","l","e","T","y","p","e">>), JNull,
            JNull, JNull, JNull, JList(<<JRef(JStr(U_FileFormat))>>), JList(<<>>)),
     NodeOf(JStr(<<"b","t","s",":","C","o","m","p","o","n","e","n","t">>), JNull, JNull, JNull, JNull, JNull, JNull, JNull,
            JNull),
     NodeOf(JStr(<<"b","t","s",":","C","o","m","p","o","n","e","n","t">>), JStr(<<"r","d","f","s",":","C","l","a","s","s">>), JStr(<<"F","i","l","e","T","y","p","e">>), JNull,
            JNull, JNull, JBool(TRUE), JNull, JNull),
     NodeOf(JStr(<<"b","t","s",":","S","t","u","d","y">>), JStr(<<"r","d","f","s",":","C","l","a","s","s">>), JNull, JNull, JNull, JNull, JNull,
            JList(<<JStr(<<"b","t","s",":","C","o","m","p","o","n","e","n","t">>)>>), JNull)}

\* a source file json.load does not accept
InvalidJson == [key \in {"JSONDecodeError"} |-> <<>>]

\* the documents: without the key @graph, or with a list of nodes under it
Documents ==
    {<<>>} \cup {[key \in {"@graph"} |-> g] : g \in SeqsUpTo(DocNodes, MaxGraph)}

\* the text of an output file left by an earlier run
OldText == <<"@","p","r","e","f","i","x"," ","o","l","d",":"," ","<","o",">"," ",".">>

\* convert_item_to_turtle raises: format_dependencies calls dep.get on every
\* entry of a non-empty sms:requiresDependency, which a str does not have
convert_raises(node) ==
    LET requires_dep == Get(node, "sms:requiresDependency")
    IN  /\ Truthy(Get(node, "@id"))
        /\ requires_dep.kind = "list"
        /\ \E i \in 1..Len(requires_dep.val) : requires_dep.val[i].kind # "dict"

InitDoc ==
    /\ pc = "json.load"
    /\ project \in Projects
    /\ data \in Documents \cup {InvalidJson}
    /\ output_file \in {Unset, OldText}
    /\ graph = Unset /\ turtle_lines = Unset /\ pos = Unset /\ registry = Unset
    /\ uri = Unset /\ template_id = Unset /\ token = Unset
    /\ IdleEscape /\ IdleRules /\ IdleItem /\ IdleRest

\* lines 218-220: the source cannot be loaded, json.load raises
LoadRaises ==
    /\ pc = "json.load"
    /\ data = InvalidJson
    /\ pc' = "raised"
    /\ UNCHANGED <<varsDoc, varsEscape, varsUri, varsRules, varsItem, varsRest>>

\* lines 210-236: the namespace map is built, the source loaded, the
\* prefixes are appended and the graph is taken from data
AddPrefixes ==
    /\ pc = "json.load"
    /\ data # InvalidJson
    /\ registry' = namespace_map
    /\ turtle_lines' = header_lines(project)
    /\ graph' = graph_of(data)
    /\ pos' = 0
    /\ pc' = "for item in graph"
    /\ UNCHANGED <<data, output_file, varsEscape, varsUri, varsRules, varsItem, varsRest>>

\* the mutant: the project's entry is added to the namespace map on the way
ConvertNextItem_registers ==
    /\ pc = "for item in graph"
    /\ pos < Len(graph)
    /\ ~convert_raises(graph[pos + 1])
    /\ turtle_lines' =
           append_item(turtle_lines,
                       convert_item_to_turtle(graph[pos + 1], project, registry))
    /\ registry' = <<[prefix |-> Lower(project), ns_uri |-> ProjectUri(project, <<>>)]>>
                       \o namespace_map
    /\ pos' = pos + 1
    /\ UNCHANGED <<pc, data, graph, output_file, varsEscape, varsUri, varsRules,
                   varsItem, varsRest>>

\* the mutant: the text built so far is written after every item
ConvertNextItem_writes ==
    /\ pc = "for item in graph"
    /\ pos < Len(graph)
    /\ ~convert_raises(graph[pos + 1])
    /\ turtle_lines' =
           append_item(turtle_lines,
                       convert_item_to_turtle(graph[pos + 1], project, registry))
    /\ output_file' = written_text(turtle_lines')
    /\ pos' = pos + 1
    /\ UNCHANGED <<pc, data, graph, registry, varsEscape, varsUri, varsRules,
                   varsItem, varsRest>>

\* lines 238-242: one turn of the loop
ConvertNextItem ==
    /\ pc = "for item in graph"
    /\ pos < Len(graph)
    /\ ~convert_raises(graph[pos + 1])
    /\ turtle_lines' =
           append_item(turtle_lines,
                       convert_item_to_turtle(graph[pos + 1], project, registry))
    /\ pos' = pos + 1
    /\ UNCHANGED <<pc, data, graph, output_file, registry, varsEscape, varsUri,
                   varsRules, varsItem, varsRest>>

\* line 239: convert_item_to_turtle raises, and convert_jsonld_to_turtle with it
ConvertNextItemRaises ==
    /\ pc = "for item in graph"
    /\ pos < Len(graph)
    /\ convert_raises(graph[pos + 1])
    /\ pc' = "raised"
    /\ UNCHANGED <<varsDoc, varsEscape, varsUri, varsRules, varsItem, varsRest>>

\* lines 245-246: the loop is over, the text is written
WriteOutput ==
    /\ pc = "for item in graph"
    /\ pos = Len(graph)
    /\ output_file' = written_text(turtle_lines)
    /\ pc' = "convert_jsonld_to_turtle"
    /\ UNCHANGED <<data, graph, turtle_lines, pos, registry, varsEscape, varsUri,
                   varsRules, varsItem, varsRest>>

NextDoc ==
    \/ LoadRaises
    \/ AddPrefixes
    \/ ConvertNextItem
    \/ ConvertNextItemRaises
    \/ WriteOutput

SpecDoc == InitDoc /\ [][NextDoc]_vars

\* the maximal runs of non-empty lines, each joined to one text again
RECURSIVE Paragraphs(_)
Paragraphs(lines) ==
    IF lines = <<>> THEN <<>>
    ELSE IF Head(lines) = <<>> THEN Paragraphs(Tail(lines))
    ELSE LET blanks == {i \in 1..Len(lines) : lines[i] = <<>>}
             n      == IF blanks = {} THEN Len(lines) + 1 ELSE Min(blanks)
         IN  <<Join(<<NL>>, SubSeq(lines, 1, n - 1))>>
                 \o Paragraphs(SubSeq(lines, n, Len(lines)))

\* the subject blocks of a document: its paragraphs after the prefixes
DocBlocks(text) == Tail(Paragraphs(SplitLines(text)))

HasId(node) == Truthy(Get(node, "@id"))

Written == pc = "convert_jsonld_to_turtle"

\* C11: convert_item_to_turtle returns the empty text for a node whose @id
\* is missing or empty, and the written document holds nothing for it: it
\* has as many subject blocks as the graph has nodes with a non-empty @id,
\* and one empty line after the prefixes and after each block.
C11_SkippedWithoutId ==
    Written =>
        LET kept  == {i \in 1..Len(graph) : HasId(graph[i])}
            lines == SplitLines(output_file)
        IN  /\ \A i \in (1..Len(graph)) \ kept :
                   convert_item_to_turtle(graph[i], project, namespace_map) = <<>>
            /\ Len(DocBlocks(output_file)) = Cardinality(kept)
            /\ Cardinality({j \in 1..Len(lines) : lines[j] = <<>>})
                   = 1 + Cardinality(kept)

\* a written graph with a node without @id, one with an empty @id and one
\* with an @id
C11_Witness ==
    /\ Written
    /\ \E i, j, m \in 1..Len(graph) :
           /\ "@id" \notin DOMAIN graph[i]
           /\ Get(graph[j], "@id") = JStr(<<>>)
           /\ HasId(graph[m])
    /\ Len(DocBlocks(output_file)) = 1

\* C19: when the loop has taken pos nodes, what it has appended is the
\* non-empty conversions of these nodes in their order, an empty line after
\* each; the blocks of the written document are the conversions of the
\* nodes with a non-empty @id, in the order of the graph, one block for
\* each of them even when two have the same @id.
C19_BlocksInSourceOrder ==
    pc \in {"for item in graph", "convert_jsonld_to_turtle"} =>
        LET conversions == [i \in 1..pos |->
                               convert_item_to_turtle(graph[i], project, namespace_map)]
            nonempty    == SelectSeq(conversions, LAMBDA b : b # <<>>)
            appended    == SubSeq(turtle_lines, Len(prefix_lines(project)) + 2,
                                  Len(turtle_lines))
            with_id     == SelectSeq(graph, HasId)
        IN  /\ Len(appended) = 2 * Len(nonempty)
            /\ \A i \in 1..Len(nonempty) :
                   appended[2 * i - 1] = nonempty[i] /\ appended[2 * i] = <<>>
            /\ Written =>
                   DocBlocks(output_file) =
                       [i \in 1..Len(with_id) |->
                           convert_item_to_turtle(with_id[i], project, namespace_map)]

\* a written graph whose first and third node are the same, with a node
\* without @id between them
C19_Witness ==
    /\ Written
    /\ Len(graph) = 3
    /\ graph[1] = graph[3] /\ HasId(graph[1]) /\ ~HasId(graph[2])
    /\ Len(DocBlocks(output_file)) = 2

\* C20: for a document whose @graph is empty or missing, the written text
\* is the @prefix lines and one empty line after them, with no subject block.
C20_EmptyGraph ==
    (Written /\ graph = <<>>) =>
        LET lines == SplitLines(output_file)
        IN  /\ Len(lines) = Len(prefix_lines(project)) + 1
            /\ \A i \in 1..(Len(lines) - 1) :
                   StartsWith(lines[i], <<"@","p","r","e","f","i","x"," ">>) /\ EndsWith(lines[i], <<">"," ",".">>)
            /\ lines[Len(lines)] = <<>>
            /\ DocBlocks(output_file) = <<>>

C20_Witness ==
    Written /\ "@graph" \notin DOMAIN data /\ graph = <<>>

\* ---------------------------------------------------------------------------
\* The two converters' subjects, and empty local names

\* C26: for every project and every template_id L, the subject the
\* enrichment converter builds for L is the token format_uri returns for
\* the uri "bts:" followed by L.
C26_EnrichmentSubjectMatches ==
    (pc = "format_uri" /\ StartsWith(uri, BTS_PREFIX)) =>
        token = template_uri(Remainder(uri, BTS_PREFIX), project)

\* C30: format_uri returns no prefixed token whose local name is empty: a
\* uri that is a registered base or a legacy base and nothing more does not
\* come back as a prefix and a colon.
C30_NoEmptyLocalName ==
    (pc = "format_uri" /\ IsPrefixed(token)) => LocalOf(token) # <<>>

\* ---------------------------------------------------------------------------
\* The registry, the frame of a run and the single write

\* the @prefix line that declares a registry entry
PrefixLine(e) == <<"@","p","r","e","f","i","x"," ">> \o e.prefix \o <<":"," ","<">> \o e.ns_uri \o <<">"," ",".">>

\* the lines of the list before its first empty line
HeaderOf(lines) ==
    SubSeq(lines, 1, Min({i \in 1..Len(lines) : lines[i] = <<>>} \cup {Len(lines) + 1}) - 1)

InLoopOrWritten == pc \in {"for item in graph", "convert_jsonld_to_turtle"}

\* C21: the registry of a run holds the entries rdfs, rdf, schema, xsd and
\* dca and after them the project's entry, and the @prefix lines of the
\* document are the registry's entries, one line each, in its order.
C21_PrefixesAreRegistry ==
    InLoopOrWritten =>
        /\ [i \in 1..Len(registry) |-> registry[i].prefix]
               = <<<<"r","d","f","s">>, <<"r","d","f">>, <<"s","c","h","e","m","a">>, <<"x","s","d">>, <<"d","c","a">>, Lower(project)>>
        /\ HeaderOf(turtle_lines) = [i \in 1..Len(registry) |-> PrefixLine(registry[i])]

\* C22: from the moment the registry is built and the graph is loaded, no
\* step of the run changes the registry, the loaded document or a node of
\* the graph, and what is appended for a node is what the converter gives
\* for that node of the loaded document under the registry as it was built:
\* the same node gives the same block wherever it stands in the graph.
C22_RegistryAndNodesUnchanged ==
    /\ [][pc # "json.load" =>
              (registry' = registry /\ graph' = graph /\ data' = data)]_vars
    /\ [](InLoopOrWritten =>
              LET source   == graph_of(data)
                  blocks   == [i \in 1..pos |->
                                  convert_item_to_turtle(source[i], project,
                                                         namespace_map)]
                  appended == SubSeq(turtle_lines, Len(prefix_lines(project)) + 2,
                                     Len(turtle_lines))
              IN  /\ registry = namespace_map
                  /\ graph = source
                  /\ SelectSeq(appended, LAMBDA b : b # <<>>)
                         = SelectSeq(blocks, LAMBDA b : b # <<>>)
                  /\ \A i, j \in 1..pos : source[i] = source[j] => blocks[i] = blocks[j])

\* a run that has converted the same node at two places of the graph
C22_Witness ==
    /\ pc = "convert_jsonld_to_turtle"
    /\ Len(graph) = 3
    /\ graph[1] = graph[3] /\ graph[1] # graph[2] /\ HasId(graph[1]) /\ HasId(graph[2])
    /\ turtle_lines[Len(prefix_lines(project)) + 2]
           = turtle_lines[Len(prefix_lines(project)) + 6]

\* C29: the file at output_path changes in one step only, the write that
\* follows the conversion of the last node of the graph, and it changes to
\* the text of the whole document; when loading the source or converting a
\* node raises, the file is as it was before the run, missing or with
\* its former text.
C29_WrittenOnceAtEnd ==
    /\ [][output_file' # output_file =>
              /\ pc = "for item in graph" /\ pos = Len(graph)
              /\ pc' = "convert_jsonld_to_turtle"
              /\ output_file' = written_text(turtle_lines)]_vars
    /\ [](pc \in {"json.load", "for item in graph", "raised"} =>
              output_file \in {Unset, OldText})

\* a run that raised at its third node, two blocks assembled, the former
\* file untouched
C29_Witness ==
    /\ pc = "raised"
    /\ turtle_lines # Unset
    /\ pos = 2
    /\ Len(turtle_lines) = Len(prefix_lines(project)) + 5
    /\ output_file = OldText

\* ---------------------------------------------------------------------------
\* enrich_templates_to_rdf.py convert_csv_to_turtle: the enrichment document

\* the three @prefix lines, in the order they are appended
enrich_prefix_lines(proj) ==
    <<<<"@","p","r","e","f","i","x"," ">> \o Lower(proj) \o <<":"," ","<">> \o DCA_BASE \o proj \o <<"/",">"," ",".">>,
      <<"@","p","r","e","f","i","x"," ","d","c","a",":"," ","<">> \o DCA_VOCAB \o <<">"," ",".">>,
      <<"@","p","r","e","f","i","x"," ","r","d","f","s",":"," ","<">> \o NS_rdfs \o <<">"," ",".">>>>

\* template.get(key, default): a row is a function from column names to text
RowGet(row, key, default) == IF key \in DOMAIN row THEN row[key] ELSE default

\* the mutant: every role that is not Record or Annotation counts as unconfigured
role_lines_else_unconfigured(subject, template_role) ==
    IF template_role = <<"R","e","c","o","r","d">>
    THEN <<subject \o <<" ","a"," ","d","c","a",":","R","e","c","o","r","d","T","e","m","p","l","a","t","e"," ",".">>>>
    ELSE IF template_role = <<"A","n","n","o","t","a","t","i","o","n">>
    THEN <<subject \o <<" ","a"," ","d","c","a",":","A","n","n","o","t","a","t","i","o","n","T","e","m","p","l","a","t","e"," ",".">>>>
    ELSE <<subject \o <<" ","a"," ","d","c","a",":","U","n","c","o","n","f","i","g","u","r","e","d","T","e","m","p","l","a","t","e"," ",".">>>>

\* "Add template type assertion"
role_lines(subject, template_role) ==
    IF template_role = <<"R","e","c","o","r","d">>
    THEN <<subject \o <<" ","a"," ","d","c","a",":","R","e","c","o","r","d","T","e","m","p","l","a","t","e"," ",".">>>>
    ELSE IF template_role = <<"A","n","n","o","t","a","t","i","o","n">>
    THEN <<subject \o <<" ","a"," ","d","c","a",":","A","n","n","o","t","a","t","i","o","n","T","e","m","p","l","a","t","e"," ",".">>>>
    ELSE IF template_role = <<"N","/","A">>
    THEN <<subject \o <<" ","a"," ","d","c","a",":","U","n","c","o","n","f","i","g","u","r","e","d","T","e","m","p","l","a","t","e"," ",".">>>>
    ELSE <<>>

\* "Add species information"
species_lines(subject, species) ==
    IF species # <<>> /\ species # <<"N","o","t"," ","s","p","e","c","i","f","i","e","d">>
    THEN <<subject \o <<" ","d","c","a",":","s","p","e","c","i","e","s"," ">> \o enrich_escape_turtle_string(species)
               \o <<" ",".">>>>
    ELSE <<>>

\* "Add file type for annotation templates"
file_type_lines(subject, file_type) ==
    IF file_type # <<>> /\ file_type # <<"N","/","A">>
    THEN <<subject \o <<" ","d","c","a",":","f","i","l","e","T","y","p","e"," ">> \o enrich_escape_turtle_string(file_type)
               \o <<" ",".">>>>
    ELSE <<>>

\* one turn of the loop over the templates: the lines of a row and an empty line
template_lines(row, proj) ==
    LET subject == template_uri(row["template_id"], proj)
    IN  role_lines(subject, RowGet(row, "configured_template_role", <<"N","/","A">>))
            \o species_lines(subject, RowGet(row, "species", <<"N","o","t"," ","s","p","e","c","i","f","i","e","d">>))
            \o file_type_lines(subject, RowGet(row, "file_type", <<"N","/","A">>))
            \o <<<<>>>>

\* the list the text is built in, when the loop is over
enrich_lines(rows, proj) ==
    enrich_prefix_lines(proj) \o <<<<>>>>
        \o Flatten([i \in 1..Len(rows) |-> template_lines(rows[i], proj)])

\* the row with the columns whose value is not None
RowOf(tid, role, species, file_type) ==
    LET all  == [key \in {"template_id", "configured_template_role", "species",
                          "file_type"} |->
                    CASE key = "template_id" -> tid
                      [] key = "configured_template_role" -> role
                      [] key = "species" -> species
                      [] OTHER -> file_type]
        keys == {key \in DOMAIN all : all[key] # None}
    IN  [key \in keys |-> all[key]]

EnrichIdValues   == {None, <<>>, <<"B","i","o","s","p","e","c","i","m","e","n">>, <<"A","g","e"," ","(","y","e","a","r","s",")">>}
RoleValues       == {None, <<"R","e","c","o","r","d">>, <<"A","n","n","o","t","a","t","i","o","n">>, <<"N","/","A">>, <<"B","o","t","h">>}
SpeciesValues    == {None, <<>>, <<"N","o","t"," ","s","p","e","c","i","f","i","e","d">>, <<"H","u","m","a","n">>, <<"a", DQ, "b">>}
FileTypeValues   == {None, <<>>, <<"N","/","A">>, <<"F","A","S","T","Q">>}

\* every row over the values above
EnrichRows ==
    {RowOf(tid, role, species, file_type) :
        tid \in EnrichIdValues, role \in RoleValues, species \in SpeciesValues,
        file_type \in FileTypeValues}

\* the rows the longer files are made of: the rows of one file have the
\* same columns, here all four
FewRows ==
    {RowOf(<<"B","i","o","s","p","e","c","i","m","e","n">>, <<"R","e","c","o","r","d">>, <<"H","u","m","a","n">>, <<"N","/","A">>),
     RowOf(<<"A","g","e"," ","(","y","e","a","r","s",")">>, <<"A","n","n","o","t","a","t","i","o","n">>, <<"N","o","t"," ","s","p","e","c","i","f","i","e","d">>, <<"F","A","S","T","Q">>),
     RowOf(<<>>, <<"R","e","c","o","r","d">>, <<"H","u","m","a","n">>, <<"F","A","S","T","Q">>),
     RowOf(<<"B","i","o","s","p","e","c","i","m","e","n">>, <<"B","o","t","h">>, <<>>, <<>>),
     RowOf(<<"B","i","o","s","p","e","c","i","m","e","n">>, <<"N","/","A">>, <<"a", DQ, "b">>, <<"N","/","A">>)}

MaxTemplates == 2

InitEnrich ==
    /\ pc = "csv.DictReader"
    /\ project \in Projects
    /\ templates \in {<<row>> : row \in EnrichRows} \cup SeqsUpTo(FewRows, MaxTemplates)
    /\ enrich_file = Unset
    /\ uri = Unset /\ template_id = Unset /\ token = Unset
    /\ IdleEscape /\ IdleRules /\ IdleItem /\ IdleDoc /\ IdleModel /\ IdleMain

\* lines 66-68: no row, nothing is written
ConvertCsvNoTemplates ==
    /\ pc = "csv.DictReader"
    /\ templates = <<>>
    /\ pc' = "No templates found"
    /\ UNCHANGED <<varsEscape, varsUri, varsRules, varsItem, varsDoc, varsRest>>

\* line 82: a row without the column template_id, KeyError
ConvertCsvRaises ==
    /\ pc = "csv.DictReader"
    /\ templates # <<>>
    /\ \E i \in 1..Len(templates) : "template_id" \notin DOMAIN templates[i]
    /\ pc' = "raised"
    /\ UNCHANGED <<varsEscape, varsUri, varsRules, varsItem, varsDoc, varsRest>>

\* lines 70-114: the text is built and written
ConvertCsv ==
    /\ pc = "csv.DictReader"
    /\ templates # <<>>
    /\ \A i \in 1..Len(templates) : "template_id" \in DOMAIN templates[i]
    /\ enrich_file' = Join(<<NL>>, enrich_lines(templates, project))
    /\ pc' = "convert_csv_to_turtle"
    /\ UNCHANGED <<templates, varsEscape, varsUri, varsRules, varsItem, varsDoc,
                   varsModel, varsMain>>

NextEnrich == ConvertCsvNoTemplates \/ ConvertCsvRaises \/ ConvertCsv

SpecEnrich == InitEnrich /\ [][NextEnrich]_vars

EnrichWritten == pc = "convert_csv_to_turtle"

\* the lines of the enrichment document after its prefixes and the empty line
EnrichBody == 
    LET lines == SplitLines(enrich_file)
    IN  SubSeq(lines, Len(enrich_prefix_lines(project)) + 2, Len(lines))

\* the statements the enrichment document is to hold for a row, by its
\* role, species and file type
StatementsFor(row, proj) ==
    LET subject   == template_uri(row["template_id"], proj)
        role      == RowGet(row, "configured_template_role", <<"N","/","A">>)
        species   == RowGet(row, "species", <<>>)
        file_type == RowGet(row, "file_type", <<>>)
        quoted(text) == <<DQ>> \o MapChars(EscapeImage, text) \o <<DQ>>
        class     == CASE role = <<"R","e","c","o","r","d">>     -> <<<<"R","e","c","o","r","d","T","e","m","p","l","a","t","e">>>>
                       [] role = <<"A","n","n","o","t","a","t","i","o","n">> -> <<<<"A","n","n","o","t","a","t","i","o","n","T","e","m","p","l","a","t","e">>>>
                       [] role = <<"N","/","A">>        -> <<<<"U","n","c","o","n","f","i","g","u","r","e","d","T","e","m","p","l","a","t","e">>>>
                       [] OTHER                 -> <<>>
    IN  [i \in 1..Len(class) |-> subject \o <<" ","a"," ","d","c","a",":">> \o class[i] \o <<" ",".">>]
            \o (IF species \notin {<<>>, <<"N","o","t"," ","s","p","e","c","i","f","i","e","d">>}
                THEN <<subject \o <<" ","d","c","a",":","s","p","e","c","i","e","s"," ">> \o quoted(species) \o <<" ",".">>>>
                ELSE <<>>)
            \o (IF file_type \notin {<<>>, <<"N","/","A">>}
                THEN <<subject \o <<" ","d","c","a",":","f","i","l","e","T","y","p","e"," ">> \o quoted(file_type) \o <<" ",".">>>>
                ELSE <<>>)

C24_EmptyIdOmitted ==
    EnrichWritten =>
        SplitLines(enrich_file) =
            enrich_lines(SelectSeq(templates, LAMBDA row : row["template_id"] # <<>>),
                         project)

\* ---------------------------------------------------------------------------
\* extract_templates.py: from the templates of a data model to the CSV rows

AnyIn(keywords, text) == \E k \in keywords : Contains(text, k)

\* one character of str.upper()
UpperChar(c) ==
    IF \E k \in 1..26 : LowerCase[k] = c
    THEN UpperCase[CHOOSE k \in 1..26 : LowerCase[k] = c]
    ELSE c

IsLetter(c) == \E k \in 1..26 : LowerCase[k] = c \/ UpperCase[k] = c

\* str.title(): a letter after a non-letter is upper case, every other lower case
Title(str) ==
    [i \in 1..Len(str) |->
        IF i = 1 \/ ~IsLetter(str[i - 1]) THEN UpperChar(str[i])
        ELSE Lower(<<str[i]>>)[1]]

\* x or y, for text
OrElse(x, y) == IF x # <<>> THEN x ELSE y

normalize_config_role(raw_role) ==
    IF raw_role = <<>> THEN <<"N","/","A">>
    ELSE IF Lower(raw_role) \in {<<"a","n","n","o","t","a","t","i","o","n">>, <<"f","i","l","e">>, <<"f","i","l","e","_","a","n","n","o","t","a","t","i","o","n">>,
                                 <<"f","i","l","e","o","n","l","y">>, <<"f","i","l","e","_","o","n","l","y">>}
    THEN <<"A","n","n","o","t","a","t","i","o","n">>
    ELSE IF Lower(raw_role) \in {<<"r","e","c","o","r","d">>, <<"r","e","c","o","r","d","_","s","u","b","m","i","s","s","i","o","n">>, <<"r","e","c","o","r","d","o","n","l","y">>,
                                 <<"r","e","c","o","r","d","_","o","n","l","y">>, <<"t","a","b","l","e">>}
    THEN <<"R","e","c","o","r","d">>
    ELSE Title(Replace(raw_role, <<"_">>, <<" ">>))

infer_filetype_from_name(name) ==
    LET name_lower == Lower(name)
    IN  IF AnyIn({<<"w","g","s">>, <<"w","e","s">>, <<"r","n","a","s","e","q">>, <<"r","n","a","-","s","e","q">>, <<"s","c","r","n","a">>, <<"c","h","i","p","-","s","e","q">>,
                  <<"c","h","i","p","s","e","q">>}, name_lower)
        THEN IF Contains(name_lower, <<"p","r","o","c","e","s","s","e","d">>) \/ Contains(name_lower, <<"a","l","i","g","n","e","d">>)
             THEN IF Contains(name_lower, <<"v","a","r","i","a","n","t">>) THEN <<"V","C","F">>
                  ELSE IF Contains(name_lower, <<"e","x","p","r","e","s","s","i","o","n">>) THEN <<"E","x","p","r","e","s","s","i","o","n"," ","m","a","t","r","i","x">>
                  ELSE <<"B","A","M","/","C","R","A","M">>
             ELSE <<"F","A","S","T","Q">>
        ELSE IF Contains(name_lower, <<"m","e","t","h","y","l","a","t","i","o","n">>) \/ Contains(name_lower, <<"e","p","i","g","e","n","e","t","i","c">>)
        THEN IF Contains(name_lower, <<"a","r","r","a","y">>) THEN <<"I","D","A","T">> ELSE <<"F","A","S","T","Q">>
        ELSE IF Contains(name_lower, <<"i","m","a","g","i","n","g">>) \/ Contains(name_lower, <<"m","r","i">>)
        THEN <<"I","m","a","g","e"," ","f","i","l","e","s"," ","(","D","I","C","O","M","/","T","I","F","F","/","e","t","c",".",")">>
        ELSE IF Contains(name_lower, <<"p","r","o","t","e","o","m","i","c","s">>) THEN <<"M","a","s","s"," ","s","p","e","c"," ","d","a","t","a">>
        ELSE IF Contains(name_lower, <<"f","a","c","s">>) \/ Contains(name_lower, <<"f","l","o","w">>)
        THEN <<"F","C","S">>
        ELSE IF Contains(name_lower, <<"p","r","o","c","e","s","s","e","d">>) THEN <<"P","r","o","c","e","s","s","e","d"," ","d","a","t","a">>
        ELSE IF Contains(name_lower, <<"p","r","o","t","o","c","o","l">>) \/ Contains(name_lower, <<"r","e","p","o","r","t">>)
        THEN <<"P","D","F","/","D","o","c","u","m","e","n","t">>
        ELSE <<"V","a","r","i","o","u","s">>

\* returns <<data_type, file_type>>
heuristic_type_and_filetype(label_lower, comment_lower, display_name_lower) ==
    LET text_blocks ==
            Join(<<" ">>, SelectSeq(<<label_lower, comment_lower, display_name_lower>>,
                                    LAMBDA x : x # <<>>))
    IN  IF AnyIn({<<"a","g","e">>, <<"d","o","s","e">>, <<"d","e","p","t","h">>, <<"l","e","n","g","t","h">>, <<"d","i","s","t","a","n","c","e">>, <<"t","i","m","e","p","o","i","n","t">>,
                  <<"d","a","t","a","t","y","p","e">>, <<"w","o","r","k","f","l","o","w">>}, label_lower)
        THEN <<<<"A","t","t","r","i","b","u","t","e">>, <<"N","/","A">>>>
        ELSE IF AnyIn({<<"p","o","r","t","a","l">>, <<"p","u","b","l","i","c","a","t","i","o","n">>}, label_lower)
        THEN <<<<"R","e","f","e","r","e","n","c","e">>, <<"N","/","A">>>>
        ELSE IF AnyIn({<<"c","l","i","n","i","c","a","l">>, <<"p","a","t","i","e","n","t">>, <<"p","a","r","t","i","c","i","p","a","n","t">>, <<"b","i","o","s","p","e","c","i","m","e","n">>,
                       <<"i","n","d","i","v","i","d","u","a","l">>, <<"c","o","h","o","r","t">>, <<"d","e","m","o","g","r","a","p","h","i","c","s">>, <<"e","p","i","d","e","m","i","o","l","o","g","y">>},
                      text_blocks)
        THEN <<<<"C","l","i","n","i","c","a","l"," ","d","a","t","a">>, <<"N","/","A">>>>
        ELSE IF Contains(text_blocks, <<"m","e","t","a","d","a","t","a">>) \/ Contains(text_blocks, <<"a","n","n","o","t","a","t","i","o","n">>)
        THEN <<<<"M","e","t","a","d","a","t","a">>,
               infer_filetype_from_name(OrElse(label_lower, display_name_lower))>>
        ELSE IF AnyIn({<<"a","s","s","a","y">>, <<"t","e","m","p","l","a","t","e">>, <<"s","e","q","u","e","n","c","i","n","g">>, <<"i","m","a","g","i","n","g">>, <<"p","r","o","t","e","o","m","i","c","s">>,
                       <<"g","e","n","o","m","i","c","s">>, <<"e","p","i","g","e","n","e","t","i","c","s">>, <<"m","e","t","h","y","l","a","t","i","o","n">>, <<"m","i","c","r","o","s","c","o","p","y">>},
                      text_blocks)
        THEN <<<<"M","e","t","a","d","a","t","a">>, infer_filetype_from_name(label_lower)>>
        ELSE IF AnyIn({<<"p","r","o","t","o","c","o","l">>, <<"d","o","c","u","m","e","n","t","a","t","i","o","n">>, <<"r","e","p","o","r","t">>, <<"c","o","d","e">>}, text_blocks)
        THEN <<<<"M","e","t","a","d","a","t","a">>, <<"D","o","c","u","m","e","n","t">>>>
        ELSE IF Contains(text_blocks, <<"p","r","o","c","e","s","s","e","d">>)
        THEN <<<<"M","e","t","a","d","a","t","a">>, infer_filetype_from_name(label_lower)>>
        ELSE <<<<"U","n","k","n","o","w","n">>, <<"N","/","A">>>>

\* str.split(':')[-1]
AfterLastColon(str) ==
    LET colons == {i \in 1..Len(str) : str[i] = ":"}
    IN  IF colons = {} THEN str
        ELSE SubSeq(str, (CHOOSE i \in colons : \A j \in colons : j <= i) + 1, Len(str))

\* infer_type_and_filetype, "Priority 1": <<data_type, file_type, configured_role>>
\* after the loop over the manifest schemas
config_alignment(template, config) ==
    LET label_lower == Lower(template.label)
        names       == {template.label, AfterLastColon(template.id), template.displayName}
        schemas     == IF "manifest_schemas" \in DOMAIN config
                       THEN config["manifest_schemas"] ELSE <<>>
        hits        == {i \in 1..Len(schemas) :
                           /\ RowGet(schemas[i], "schema_name", <<>>) # <<>>
                           /\ RowGet(schemas[i], "schema_name", <<>>) \in names}
    IN  IF hits = {} THEN <<None, <<"N","/","A">>, <<"N","/","A">>>>
        ELSE LET schema == schemas[Min(hits)]
                 config_role_raw ==
                     OrElse(RowGet(schema, "submitted_as", <<>>),
                            RowGet(schema, "type", <<>>))
                 configured_role == normalize_config_role(config_role_raw)
                 schema_display_name == Lower(RowGet(schema, "display_name", <<>>))
             IN  IF configured_role = <<"A","n","n","o","t","a","t","i","o","n">>
                 THEN <<<<"M","e","t","a","d","a","t","a">>,
                        infer_filetype_from_name(OrElse(schema_display_name, label_lower)),
                        configured_role>>
                 ELSE IF configured_role = <<"R","e","c","o","r","d">>
                 THEN <<<<"C","l","i","n","i","c","a","l"," ","d","a","t","a">>, <<"N","/","A">>, configured_role>>
                 ELSE <<None, <<"N","/","A">>, configured_role>>

\* returns <<data_type, file_type, configured_role>>
infer_type_and_filetype(template, config) ==
    LET label_lower        == Lower(template.label)
        comment_lower      == Lower(template.comment)
        display_name_lower == Lower(template.displayName)
        aligned   == config_alignment(template, config)
        heuristic == heuristic_type_and_filetype(label_lower, comment_lower,
                                                 display_name_lower)
        data_type == IF aligned[1] = None THEN heuristic[1] ELSE aligned[1]
        file_type == IF aligned[1] = None THEN heuristic[2] ELSE aligned[2]
    IN  <<data_type,
          IF data_type = <<"M","e","t","a","d","a","t","a">> /\ file_type = <<"N","/","A">>
          THEN infer_filetype_from_name(OrElse(label_lower, display_name_lower))
          ELSE file_type,
          aligned[3]>>

infer_species(template) ==
    LET has_species ==
            \E i \in 1..Len(template.requiresDependency) :
                EndsWith(template.requiresDependency[i], <<":","S","p","e","c","i","e","s">>)
        all_text == Join(<<" ">>, <<Lower(template.comment), Lower(template.label),
                                    Lower(template.displayName)>>)
    IN  IF AnyIn({<<"n","o","n","_","h","u","m","a","n">>, <<"n","o","n","h","u","m","a","n">>, <<"n","o","n","-","h","u","m","a","n">>}, all_text)
        THEN <<"A","n","i","m","a","l"," ","m","o","d","e","l">>
        ELSE IF AnyIn({<<"h","u","m","a","n">>, <<"p","a","t","i","e","n","t">>, <<"p","a","r","t","i","c","i","p","a","n","t">>}, all_text) THEN <<"H","u","m","a","n">>
        ELSE IF AnyIn({<<"m","o","u","s","e">>, <<"m","i","c","e">>}, all_text) THEN <<"M","o","u","s","e">>
        ELSE IF Contains(all_text, <<"a","n","i","m","a","l">>) THEN <<"A","n","i","m","a","l"," ","m","o","d","e","l">>
        ELSE IF has_species THEN <<"M","u","l","t","i","-","s","p","e","c","i","e","s">>
        ELSE <<"N","o","t"," ","s","p","e","c","i","f","i","e","d">>

\* process_model: the rows of results, with the columns the enrichment reads
results_of(model_templates, config, all) ==
    LET kept == SelectSeq(model_templates,
                    LAMBDA template :
                        all \/ infer_type_and_filetype(template, config)[1] # <<"A","t","t","r","i","b","u","t","e">>)
    IN  [i \in 1..Len(kept) |->
            LET inferred == infer_type_and_filetype(kept[i], config)
            IN  RowOf(kept[i].label, inferred[3], infer_species(kept[i]), inferred[2])]

\* the rows csv.DictReader gives for the file csv.DictWriter has written:
\* the fields are text without line breaks and are read back as they were
csv_rows(rows) == rows

TemplateOf(label, comment, display_name, deps) ==
    [id |-> <<"b","t","s",":">> \o label, label |-> label, comment |-> comment,
     displayName |-> display_name, requiresDependency |-> deps]

TemplateLabels ==
    {<<"A","g","e">>, <<"P","o","r","t","a","l","S","t","u","d","y">>, <<"P","a","t","i","e","n","t","I","n","f","o">>, <<"A","s","s","a","y","M","e","t","a","d","a","t","a">>, <<"R","N","A","s","e","q","T","e","m","p","l","a","t","e">>,
     <<"I","m","a","g","i","n","g","A","s","s","a","y">>, <<"P","r","o","t","o","c","o","l">>, <<"O","t","h","e","r">>}

\* the templates extract_templates_from_model finds in a data model
ModelTemplates ==
    {TemplateOf(label, comment, display_name, deps) :
        label \in TemplateLabels,
        comment \in {<<>>, <<"P","r","o","c","e","s","s","e","d"," ","m","o","u","s","e"," ","d","a","t","a">>},
        display_name \in {<<>>, <<"F","l","o","w"," ","r","e","p","o","r","t">>},
        deps \in {<<<<"b","t","s",":","C","o","m","p","o","n","e","n","t">>>>}}
        \cup {TemplateOf(label, <<>>, <<>>, <<<<"b","t","s",":","C","o","m","p","o","n","e","n","t">>,
                                             <<"b","t","s",":","S","p","e","c","i","e","s">>>>) :
                 label \in TemplateLabels}

FewModelTemplates ==
    {TemplateOf(<<"R","N","A","s","e","q","T","e","m","p","l","a","t","e">>, <<>>, <<>>, <<<<"b","t","s",":","C","o","m","p","o","n","e","n","t">>>>),
     TemplateOf(<<"P","a","t","i","e","n","t","I","n","f","o">>, <<>>, <<>>, <<<<"b","t","s",":","S","p","e","c","i","e","s">>>>),
     TemplateOf(<<"A","g","e">>, <<>>, <<>>, <<<<"b","t","s",":","C","o","m","p","o","n","e","n","t">>>>)}

SchemaOf(schema_name, submitted_as, type, display_name) ==
    LET all  == [key \in {"schema_name", "submitted_as", "type", "display_name"} |->
                    CASE key = "schema_name" -> schema_name
                      [] key = "submitted_as" -> submitted_as
                      [] key = "type" -> type
                      [] OTHER -> display_name]
        keys == {key \in DOMAIN all : all[key] # None}
    IN  [key \in keys |-> all[key]]

\* get_template_config found no configuration for the project
NoTemplateConfig == [key \in {"None"} |-> <<>>]

\* the template configurations: none, one without schemas, and those with
\* one or three manifest schemas
TemplateConfigs ==
    {NoTemplateConfig, [key \in {"manifest_schemas"} |-> <<>>]}
        \cup {[key \in {"manifest_schemas"} |-> <<SchemaOf(name, submitted, type, display)>>] :
                 name \in {<<"R","N","A","s","e","q","T","e","m","p","l","a","t","e">>, <<"P","a","t","i","e","n","t","I","n","f","o">>},
                 submitted \in {None, <<"r","e","c","o","r","d">>, <<"f","i","l","e","_","o","n","l","y">>, <<"b","o","t","h","_","k","i","n","d","s">>},
                 type \in {None, <<"f","i","l","e">>},
                 display \in {None}}
        \cup {[key \in {"manifest_schemas"} |->
                  <<SchemaOf(<<"R","N","A","s","e","q","T","e","m","p","l","a","t","e">>, submitted, None,
                             <<"I","m","a","g","i","n","g"," ","a","s","s","a","y">>)>>] :
                 submitted \in {<<"r","e","c","o","r","d">>, <<"f","i","l","e">>}}
        \cup {[key \in {"manifest_schemas"} |->
                  <<SchemaOf(<<>>, <<"f","i","l","e">>, None, None),
                    SchemaOf(<<"O","t","h","e","r">>, None, <<"r","e","c","o","r","d">>, None),
                    SchemaOf(<<"O","t","h","e","r">>, <<"f","i","l","e">>, None, None)>>]}

MaxExtracted == 2

InitModel ==
    /\ pc = "process_model"
    /\ project = <<"C","B">>
    /\ extracted \in {<<template>> : template \in ModelTemplates}
                         \cup SeqsUpTo(FewModelTemplates, MaxExtracted)
    /\ template_config \in TemplateConfigs
    /\ include_all \in BOOLEAN
    /\ templates = Unset /\ enrich_file = Unset
    /\ uri = Unset /\ template_id = Unset /\ token = Unset
    /\ IdleEscape /\ IdleRules /\ IdleItem /\ IdleDoc /\ IdleMain

\* process_model, lines 377-412, and the CSV read back, enrichment lines 59-64
ProcessModel ==
    /\ pc = "process_model"
    /\ templates' = csv_rows(results_of(extracted, template_config, include_all))
    /\ pc' = "csv.DictReader"
    /\ UNCHANGED <<enrich_file, varsEscape, varsUri, varsRules, varsItem, varsDoc,
                   varsModel, varsMain>>

NextModel == ProcessModel \/ ConvertCsvNoTemplates \/ ConvertCsv

SpecModel == InitModel /\ [][NextModel]_vars

\* C27: in the enrichment document made from the rows process_model writes,
\* a template has a dca:fileType statement only if its configured role is
\* Annotation; a template with the role Record or N/A has none.
C27_FileTypeOnlyForAnnotation ==
    EnrichWritten =>
        \A i \in 1..Len(templates) :
            (\E k \in 1..Len(EnrichBody) :
                StartsWith(EnrichBody[k],
                           template_uri(templates[i]["template_id"], project)
                               \o <<" ","d","c","a",":","f","i","l","e","T","y","p","e"," ">>))
                => templates[i]["configured_template_role"] = <<"A","n","n","o","t","a","t","i","o","n">>

-----------------------------------------------------------------------------
(* The documents of both converters: a node's block under the header of   *)
(* its document, the data-model document and the enrichment document       *)

\* the nodes that differ in what their block names: id, types, superclasses
\* and dependencies, with and without a comment and validation rules
NamingNodes ==
    {NodeOf(id, type, JStr(<<"F","i","l","e","T","y","p","e">>), comment, subclass, JNull, JBool(TRUE),
            deps, vrules) :
        id \in IdValues, type \in TypeValues, comment \in CommentValues,
        subclass \in SubClassValues, deps \in DependencyValues,
        vrules \in {JNull, JList(<<<<"s","t","r">>, <<"l","i","s","t"," ","l","i","k","e">>>>)}}

InitBlock ==
    /\ pc = "start"
    /\ item \in NamingNodes
    /\ block = Unset
    /\ IdleEscape /\ IdleRules /\ IdleDoc /\ IdleRest
    /\ uri = Unset /\ template_id = Unset /\ token = Unset
    /\ project = CB

InitDocuments == InitBlock \/ InitDoc \/ InitEnrich

NextDocuments == NextItem \/ NextDoc \/ NextEnrich

SpecDocuments == InitDocuments /\ [][NextDocuments]_vars

\* the text of the document a state holds: the file written, or for a block
\* the file convert_jsonld_to_turtle writes for the graph of that one node
DocumentText ==
    CASE pc = "convert_jsonld_to_turtle" -> output_file
      [] pc = "convert_csv_to_turtle"    -> enrich_file
      [] pc = "convert_item_to_turtle"   ->
             Join(<<NL>>, append_item(header_lines(project), block))
      [] OTHER -> <<>>

FirstOf(text, c) ==
    IF c \in Chars(text) THEN Min({i \in 1..Len(text) : text[i] = c}) ELSE Len(text) + 1

\* the prefixes of the prefixed names of a line, read token by token as Turtle
\* does: a quoted literal ends at its closing quote, an IRI in angle brackets
\* at the next >, any other token at the next space
RECURSIVE PrefixesIn(_)
PrefixesIn(text) ==
    IF text = <<>> THEN {}
    ELSE IF Head(text) = " " THEN PrefixesIn(Tail(text))
    ELSE IF Head(text) = DQ
    THEN LET j == IF ClosingQuotes(text) = {} THEN Len(text) ELSE Min(ClosingQuotes(text))
         IN  PrefixesIn(SubSeq(text, j + 1, Len(text)))
    ELSE IF Head(text) = "<"
    THEN PrefixesIn(SubSeq(text, FirstOf(text, ">") + 1, Len(text)))
    ELSE LET word == SubSeq(text, 1, FirstOf(text, " ") - 1)
             rest == SubSeq(text, FirstOf(text, " ") + 1, Len(text))
         IN  (IF ":" \in Chars(word)
              THEN {SubSeq(word, 1, FirstOf(word, ":") - 1)} ELSE {})
                 \cup PrefixesIn(rest)

IsPrefixLine(line) == StartsWith(line, <<"@","p","r","e","f","i","x"," ">>)

\* the prefixes the @prefix lines of a document declare
DeclaredPrefixes(lines) ==
    {SubSeq(lines[i], 9, FirstOf(lines[i], ":") - 1) :
        i \in {k \in 1..Len(lines) : IsPrefixLine(lines[k])}}

\* the prefixes the other lines of a document use
UsedPrefixes(lines) ==
    UNION {PrefixesIn(lines[i]) :
              i \in {k \in 1..Len(lines) : ~IsPrefixLine(lines[k])}}

\* C28: every prefix a document uses in a prefixed name of its body (subject,
\* type, rdfs:subClassOf and dca:requiresDependency objects, predicates) is
\* declared by one of the @prefix lines of the same document, in the
\* data-model document and in the enrichment document.
C28_PrefixesDeclared ==
    LET lines == SplitLines(DocumentText)
    IN  UsedPrefixes(lines) \subseteq DeclaredPrefixes(lines)

C28_Witness ==
    LET lines == SplitLines(DocumentText)
    IN  /\ pc = "convert_item_to_turtle"
        /\ UsedPrefixes(lines) = {<<"c","b">>, <<"r","d","f","s">>, <<"s","c","h","e","m","a">>, <<"d","c","a">>}
        /\ DeclaredPrefixes(lines) = {<<"c","b">>, <<"d","c","a">>, <<"r","d","f","s">>, <<"r","d","f">>, <<"s","c","h","e","m","a">>, <<"x","s","d">>}

C28_WitnessEnrichment ==
    LET lines == SplitLines(DocumentText)
    IN  /\ pc = "convert_csv_to_turtle"
        /\ UsedPrefixes(lines) = {<<"a","d","k","p">>, <<"d","c","a">>}
        /\ DeclaredPrefixes(lines) = {<<"a","d","k","p">>, <<"d","c","a">>, <<"r","d","f","s">>}

-----------------------------------------------------------------------------
(* main of convert_to_rdf.py and of enrich_templates_to_rdf.py: the files *)
(* of the input directory are converted one after the other               *)

ConvertToRdf == "convert_to_rdf"
EnrichTemplatesToRdf == "enrich_templates_to_rdf"

\* the end of the names the glob of a script matches
FileSuffix(sc) ==
    IF sc = ConvertToRdf THEN <<"_","d","a","t","a","_","m","o","d","e","l",".","j","s","o","n","l","d">> ELSE <<"_","t","e","m","p","l","a","t","e","s",".","c","s","v">>

\* the text main takes out of a stem to name the project
StemMarker(sc) == IF sc = ConvertToRdf THEN <<"_","d","a","t","a","_","m","o","d","e","l">> ELSE <<"_","t","e","m","p","l","a","t","e","s">>

\* the end of the name of the output file of a project
OutputSuffix(sc) ==
    IF sc = ConvertToRdf THEN <<"_","d","a","t","a","_","m","o","d","e","l",".","t","t","l">> ELSE <<"_","e","n","r","i","c","h","m","e","n","t",".","t","t","l">>

\* Path.stem: the name without its last suffix
Stem(name) ==
    LET dots == {i \in 2..Len(name) : name[i] = "."}
    IN  IF dots = {} THEN name
        ELSE SubSeq(name, 1, (CHOOSE i \in dots : \A j \in dots : j <= i) - 1)

\* project = path.stem.replace('_data_model', '')
project_of(sc, name) == Replace(Stem(name), StemMarker(sc), <<>>)

output_path(sc, proj) == proj \o OutputSuffix(sc)

\* the code point of a character of a file name
Ord(c) ==
    IF \E k \in 1..26 : UpperCase[k] = c
    THEN 64 + (CHOOSE k \in 1..26 : UpperCase[k] = c)
    ELSE IF \E k \in 1..26 : LowerCase[k] = c
    THEN 96 + (CHOOSE k \in 1..26 : LowerCase[k] = c)
    ELSE IF c = "_" THEN 95
    ELSE 46

\* the order of str, by which sorted() orders the paths of one directory
NameLess(a, b) ==
    \E i \in 1..(Len(b)) :
        /\ \A j \in 1..(i - 1) : j <= Len(a) /\ a[j] = b[j]
        /\ i > Len(a) \/ Ord(a[i]) < Ord(b[i])

\* sorted(names)
SortedNames(names) ==
    [i \in 1..Cardinality(names) |->
        CHOOSE n \in names : Cardinality({m \in names : NameLess(m, n)}) = i - 1]

\* input_dir.glob: the files of the project, or all files of the script
glob(sc, names, arg) ==
    IF arg # None THEN {n \in names : n = arg \o FileSuffix(sc)}
    ELSE {n \in names : EndsWith(n, FileSuffix(sc))}

DemoProjects == {<<"d","e","m","o">>, <<"d","e","m","o","_","u","p","s","e","r","t">>}

\* the call of the converter raises an Exception
converter_raises(sc, content) ==
    IF sc = ConvertToRdf
    THEN \/ content = InvalidJson
         \/ \E i \in 1..Len(graph_of(content)) : convert_raises(graph_of(content)[i])
    ELSE /\ Len(content) > 0
         /\ \E i \in 1..Len(content) : "template_id" \notin DOMAIN content[i]

\* the call of the converter writes its output file
converter_writes(sc, content) ==
    /\ ~converter_raises(sc, content)
    /\ sc = EnrichTemplatesToRdf => Len(content) > 0

\* the text the converter writes
converter_text(sc, content, proj) ==
    IF sc = ConvertToRdf
    THEN written_text(
             header_lines(proj)
                 \o Flatten([i \in 1..Len(graph_of(content)) |->
                        append_item(<<>>, convert_item_to_turtle(graph_of(content)[i],
                                                                proj, namespace_map))]))
    ELSE Join(<<NL>>, enrich_lines(content, proj))

\* a line of the standard output: what it says and the project it is about
Message(kind, about) == [kind |-> kind, about |-> about]

\* output_path is written: a file of that name is replaced
write_file(dir, name, text) ==
    {f \in dir : f.name # name} \cup {[name |-> name, text |-> text]}

InputNames(sc) ==
    IF sc = ConvertToRdf
    THEN {<<"A","D","_","d","a","t","a","_","m","o","d","e","l",".","j","s","o","n","l","d">>, <<"A","D","K","P","_","d","a","t","a","_","m","o","d","e","l",".","j","s","o","n","l","d">>, <<"A","_","D","_","d","a","t","a","_","m","o","d","e","l",".","j","s","o","n","l","d">>,
          <<"A","_","d","a","t","a","_","m","o","d","e","l","_","D","_","d","a","t","a","_","m","o","d","e","l",".","j","s","o","n","l","d">>, <<"R","E","A","D","M","E",".","m","d">>}
    ELSE {<<"C","B","_","t","e","m","p","l","a","t","e","s",".","c","s","v">>, <<"d","e","m","o","_","t","e","m","p","l","a","t","e","s",".","c","s","v">>, <<"A","_","D","_","t","e","m","p","l","a","t","e","s",".","c","s","v">>,
          <<"A","_","t","e","m","p","l","a","t","e","s","_","D","_","t","e","m","p","l","a","t","e","s",".","c","s","v">>, <<"R","E","A","D","M","E",".","m","d">>}

\* what an input file holds: for convert_to_rdf no JSON, a graph of one
\* class, a graph of another, a graph whose node has a plain string as a
\* dependency; for enrich_templates_to_rdf no rows, one row, another row, a
\* file without the column template_id
InputContents(sc) ==
    IF sc = ConvertToRdf
    THEN {InvalidJson}
             \cup {[key \in {"@graph"} |-> <<node>>] :
                      node \in {NodeOf(JStr(<<"b","t","s",":","C","o","m","p","o","n","e","n","t">>), JStr(<<"r","d","f","s",":","C","l","a","s","s">>), JNull,
                                       JNull, JNull, JNull, JNull, JNull, JNull),
                                NodeOf(JStr(<<"b","t","s",":","C","o","m","p","o","n","e","n","t">>), JStr(<<"r","d","f","s",":","C","l","a","s","s">>),
                                       JStr(<<"F","i","l","e","T","y","p","e">>), JNull, JNull, JNull, JBool(TRUE),
                                       JNull, JNull),
                                NodeOf(JStr(<<"b","t","s",":","S","t","u","d","y">>), JStr(<<"r","d","f","s",":","C","l","a","s","s">>), JNull, JNull,
                                       JNull, JNull, JNull,
                                       JList(<<JStr(<<"b","t","s",":","C","o","m","p","o","n","e","n","t">>)>>), JNull)}}
    ELSE {<<>>,
          <<RowOf(<<"B","i","o","s","p","e","c","i","m","e","n">>, <<"R","e","c","o","r","d">>, <<"H","u","m","a","n">>, <<"N","/","A">>)>>,
          <<RowOf(<<"A","s","s","a","y">>, <<"A","n","n","o","t","a","t","i","o","n">>, <<>>, <<"F","A","S","T","Q">>)>>,
          <<RowOf(None, <<"R","e","c","o","r","d">>, <<"H","u","m","a","n">>, <<"N","/","A">>)>>}

MaxFiles == 3

InitMain ==
    /\ pc = "main"
    /\ script \in {ConvertToRdf, EnrichTemplatesToRdf}
    /\ arg_project \in {None, <<"A","_","D">>}
    /\ \E names \in SUBSET InputNames(script) :
          /\ Cardinality(names) <= MaxFiles
          /\ sources \in [names -> InputContents(script)]
    /\ files = <<>>
    /\ main_pos = 0
    /\ out_dir = {}
    /\ stdout = <<>>
    /\ project = Unset
    /\ uri = Unset /\ template_id = Unset /\ token = Unset
    /\ IdleEscape /\ IdleRules /\ IdleItem /\ IdleDoc /\ IdleEnrich /\ IdleModel

\* lines 278-288: no file is found, an error is printed and main returns
MainNoFiles ==
    /\ pc = "main"
    /\ glob(script, DOMAIN sources, arg_project) = {}
    /\ stdout' = <<Message(IF arg_project # None THEN "Error: No input found for project"
                           ELSE "Error: No inputs found in input_dir", <<>>)>>
    /\ pc' = "main returned"
    /\ UNCHANGED <<script, arg_project, files, sources, main_pos, out_dir,
                   varsEscape, varsUri, varsRules, varsItem, varsDoc, varsEnrich, varsModel>>

\* lines 278-290: the files are found and counted
MainFindFiles ==
    /\ pc = "main"
    /\ glob(script, DOMAIN sources, arg_project) # {}
    /\ files' = SortedNames(glob(script, DOMAIN sources, arg_project))
    /\ stdout' = <<Message("Converting n input(s)...", <<>>)>>
    /\ pc' = "for path in sorted(files)"
    /\ UNCHANGED <<script, arg_project, sources, main_pos, out_dir,
                   varsEscape, varsUri, varsRules, varsItem, varsDoc, varsEnrich, varsModel>>

\* enrich_templates_to_rdf.py lines 169-171: a demo project is passed over
MainSkipDemo ==
    /\ pc = "for path in sorted(files)"
    /\ main_pos < Len(files)
    /\ script = EnrichTemplatesToRdf
    /\ project_of(script, files[main_pos + 1]) \in DemoProjects
    /\ project' = project_of(script, files[main_pos + 1])
    /\ main_pos' = main_pos + 1
    /\ UNCHANGED <<pc, script, arg_project, files, sources, out_dir, stdout,
                   uri, template_id, token,
                   varsEscape, varsRules, varsItem, varsDoc, varsEnrich, varsModel>>

\* one turn of the loop in which the converter raises: the exception is
\* caught and printed, nothing is written
MainConvertRaises ==
    LET name == files[main_pos + 1]
        proj == project_of(script, name)
    IN  /\ pc = "for path in sorted(files)"
        /\ main_pos < Len(files)
        /\ script = EnrichTemplatesToRdf => proj \notin DemoProjects
        /\ converter_raises(script, sources[name])
        /\ project' = proj
        /\ stdout' = Append(stdout, Message("Error converting", proj))
        /\ main_pos' = main_pos + 1
        /\ UNCHANGED <<pc, script, arg_project, files, sources, out_dir,
                       uri, template_id, token,
                       varsEscape, varsRules, varsItem, varsDoc, varsEnrich, varsModel>>

\* one turn of the loop in which the converter returns: it has written the
\* output file of the project, or found no templates and written nothing
MainConvertNext ==
    LET name == files[main_pos + 1]
        proj == project_of(script, name)
    IN  /\ pc = "for path in sorted(files)"
        /\ main_pos < Len(files)
        /\ script = EnrichTemplatesToRdf => proj \notin DemoProjects
        /\ ~converter_raises(script, sources[name])
        /\ project' = proj
        /\ out_dir' = IF converter_writes(script, sources[name])
                       THEN write_file(out_dir, output_path(script, proj),
                                       converter_text(script, sources[name], proj))
                       ELSE out_dir
        /\ stdout' = Append(stdout, Message(IF converter_writes(script, sources[name])
                                            THEN "Converted" ELSE "No templates found",
                                            proj))
        /\ main_pos' = main_pos + 1
        /\ UNCHANGED <<pc, script, arg_project, files, sources,
                       uri, template_id, token,
                       varsEscape, varsRules, varsItem, varsDoc, varsEnrich, varsModel>>

\* the loop has ended: the last message is printed
MainComplete ==
    /\ pc = "for path in sorted(files)"
    /\ main_pos = Len(files)
    /\ stdout' = Append(stdout, Message("Conversion complete", <<>>))
    /\ pc' = "main returned"
    /\ UNCHANGED <<script, arg_project, files, sources, main_pos, out_dir,
                   varsEscape, varsUri, varsRules, varsItem, varsDoc, varsEnrich, varsModel>>

NextMain ==
    \/ MainNoFiles
    \/ MainFindFiles
    \/ MainSkipDemo
    \/ MainConvertRaises
    \/ MainConvertNext
    \/ MainComplete

SpecMain == InitMain /\ [][NextMain]_vars

InLoop == pc \in {"for path in sorted(files)", "main returned"} /\ Len(files) > 0

\* the messages the converters and the handler of the loop print, in order
FileMessages ==
    SelectSeq(stdout, LAMBDA m : m.kind \in {"Converted", "No templates found",
                                             "Error converting"})

\* the files are the files the glob matches, in the order of their names,
\* and one message per file taken has been printed, in that order
InSortedOrder ==
    InLoop =>
        /\ {files[i] : i \in 1..Len(files)} = glob(script, DOMAIN sources, arg_project)
        /\ \A i, j \in 1..Len(files) : i < j => NameLess(files[i], files[j])
        /\ [k \in 1..Len(FileMessages) |-> FileMessages[k].about]
               = [i \in 1..main_pos |-> project_of(script, files[i])]

\* a conversion that raised has been reported, every other file taken has
\* been converted
ReportedOrConverted ==
    InLoop =>
        \A i \in 1..main_pos :
            \E k \in 1..Len(stdout) :
                /\ stdout[k].about = project_of(script, files[i])
                /\ stdout[k].kind =
                       IF converter_raises(script, sources[files[i]])
                       THEN "Error converting"
                       ELSE IF converter_writes(script, sources[files[i]])
                       THEN "Converted" ELSE "No templates found"

\* after a file is taken the output file of its project holds the text of
\* that file alone, and does not exist if its conversion wrote nothing
OwnOutput ==
    (pc = "for path in sorted(files)" /\ main_pos > 0) =>
        LET name == files[main_pos]
            proj == project_of(script, name)
            mine == {f \in out_dir : f.name = output_path(script, proj)}
        IN  IF converter_writes(script, sources[name])
            THEN mine = {[name |-> output_path(script, proj),
                          text |-> converter_text(script, sources[name], proj)]}
            ELSE mine = {}

\* main has returned after the message that the conversion is complete
Completed ==
    /\ pc = "main returned"
    /\ stdout[Len(stdout)].kind = "Conversion complete"

\* C25: main takes the input files one at a time in sorted order, reports an
\* exception of a conversion and still converts every later project, leaves
\* for each project the output of its own file whatever was converted
\* before, and does not return before the message that the conversion is
\* complete.
C25_IndependentRuns ==
    /\ InSortedOrder
    /\ ReportedOrConverted
    /\ OwnOutput
    /\ pc = "main returned" => Completed

=============================================================================
